---- MODULE Spec2Model ----
(***************************************************************************)
(* Superblock subsystem of bcachefs-tools (libbcachefs/super-io.c and the  *)
(* userspace block I/O shim linux/blkdev.c).                               *)
(*                                                                         *)
(* The module holds these state machines over one set of variables:       *)
(*   - the read path   (bch2_read_super),         specification SpecRead   *)
(*   - the write path  (bch2_write_super),        specification SpecWrite  *)
(*   - the replica index and its RCU readers,     SpecRepl and SpecRcu     *)
(*   - the field directory (field resize),        specification SpecField  *)
(*   - the validators on given images,            specification SpecValid  *)
(* Each specification leaves the variables of the other machines alone.    *)
(***************************************************************************)
EXTENDS Integers, Sequences, FiniteSets, TLC

VARIABLES
    \* ---- read path: one call of bch2_read_super on one device
    r_pc,           \* position inside bch2_read_super
    r_opts,         \* struct bch_opts of the call
    r_sb,           \* struct bcache_superblock handle being filled
    r_err,          \* const char *err, "NULL" for NULL
    r_res,          \* live resources: bios, page buffers, open block devices
    r_reads,        \* sectors at which reads were submitted, in order
    r_tried,        \* outcome of every read_one_super of the call, in order
    r_i,            \* loop index over layout.sb_offset
    r_layout,       \* the local struct bch_sb_layout
    r_disk,         \* device contents: sector -> superblock image found there
    r_disk_layout,  \* device contents at BCH_SB_LAYOUT_SECTOR
    r_ioerr,        \* sectors whose reads complete with an I/O error
    r_lbs,          \* device block size in bytes (st_blksize / BLKPBSZGET)
    r_opened,       \* TRUE once bch2_blkdev_open succeeded in this call
    \* ---- write path: one call of bch2_write_super on a filesystem
    w_pc,           \* position inside bch2_write_super
    c_disk_sb,      \* c->disk_sb, the authoritative image
    c_seq0,         \* seq of c->disk_sb when the call was entered
    c_opts,         \* c->opts: nochanges, metadata_checksum
    c_error,        \* test_bit(BCH_FS_ERROR, &c->flags)
    c_inconsistent, \* TRUE once bch2_fs_inconsistent was called
    c_sb,           \* c->sb, the cached summary set by bch2_sb_update
    ca,             \* the member devices: online, disk_sb handle, io_ref, fatal, mi
    w_res,          \* live bios and page buffers of the device handles
    w_i,            \* device index of the running for_each_online_member loop
    w_super_idx,    \* super_idx
    w_wrote,        \* wrote
    w_inflight,     \* bios submitted and not yet completed
    w_cl,           \* remaining count of the closure c->sb_write
    w_media,        \* contents of the devices: device -> sector -> image
    w_log,          \* submissions and completions of the call, in order
    w_uaf,          \* devices whose image was copied through a dangling pointer
    \* ---- replica index: updaters, gc and RCU readers on one filesystem
    sb_lock,        \* owner of c->sb_lock, 0 when free
    c_disk_sb_order,\* c->disk_sb_order
    c_replicas,     \* c->replicas: address of the index, 0 for NULL
    c_replicas_gc,  \* c->replicas_gc: address of the gc index, 0 for NULL
    p_heap,         \* the index arrays: address -> status, contents, grace period
    p_thr,          \* callers of bch2_check_mark_super_slowpath: position, arguments
    p_rd,           \* readers of the index: position, pointer obtained, result
    p_gc,           \* state of the gc caller, who holds replicas_gc_lock
    p_writes,       \* invocations of bch2_write_super: caller and seq written
    p_bug,          \* TRUE once a BUG_ON fired
    \* ---- field directory and validators: single calls on given arguments
    f_last,         \* the last field resize: call, images before it, result
    v_call,         \* the validator called and its arguments
    v_ret,          \* <<>> before the call returns, then <<its return value>>
    \* ---- block I/O shim: bios, the AIO context and its completion thread
    b_bio,          \* the bios: op, flags, bi_size, bi_status, calls of bi_end_io
    b_running,      \* running_requests
    b_aio,          \* the AIO context: iocbs in flight, completion events queued
    b_events,       \* events[] of aio_completion_thread not yet handled
    b_wait          \* the caller of submit_bio_wait: position, bio, done, result

rvars == <<r_pc, r_opts, r_sb, r_err, r_res, r_reads, r_tried, r_i, r_layout,
           r_disk, r_disk_layout, r_ioerr, r_lbs, r_opened>>

wvars == <<w_pc, c_disk_sb, c_seq0, c_opts, c_error, c_inconsistent, c_sb, ca,
           w_res, w_i, w_super_idx, w_wrote, w_inflight, w_cl, w_media, w_log,
           w_uaf>>

pvars == <<sb_lock, c_disk_sb_order, c_replicas, c_replicas_gc, p_heap, p_thr,
           p_rd, p_gc, p_writes, p_bug>>

xvars == <<f_last, v_call, v_ret>>

bvars == <<b_bio, b_running, b_aio, b_events, b_wait>>
vars == <<rvars, wvars, pvars, xvars, bvars>>

-----------------------------------------------------------------------------
(* Program constants *)

PAGE_SIZE == 4096
SB_HDR_BYTES == 752
BCH_SB_SECTOR == 8
BCH_SB_LAYOUT_SECTOR == 7
BCH_SB_LAYOUT_NR == 61
BCACHE_SB_VERSION_CDEV_V4 == 7
BCH_CSUM_NR == 7
BCACHE_MAGIC == "c68573f6-4e1a-45ca-8265-f57f48ba6d81"
NULL == "NULL"
ENOMEM == 12
ENOSPC == 28

(* Bounds of the model *)
MaxIoErr == 1
CsumMod == 65521

-----------------------------------------------------------------------------
(* Arithmetic helpers *)

Pow2(n) == 2 ^ n

Max(a, b) == IF a >= b THEN a ELSE b
Min(a, b) == IF a <= b THEN a ELSE b

RECURSIVE order_from(_, _)
order_from(o, bytes) ==
    IF PAGE_SIZE * Pow2(o) >= bytes THEN o ELSE order_from(o + 1, bytes)

\* get_order(bytes): the least order with PAGE_SIZE << order >= bytes
get_order(bytes) == order_from(0, bytes)

\* __vstruct_bytes(struct bch_sb, u64s)
sb_bytes(u64s) == SB_HDR_BYTES + 8 * u64s

vstruct_bytes(sb) == sb_bytes(sb.u64s)

RECURSIVE HashSeq(_)
HashSeq(s) ==
    IF s = <<>> THEN 7
    ELSE (31 * HashSeq(Tail(s)) + Head(s) + 1) % CsumMod

\* the words of a field's payload as numbers: a member entry is a record
ItemNum(type, x) ==
    IF type = 1
    THEN (x.uuid + 3 * x.nbuckets + 5 * x.first_bucket + 7 * x.bucket_size) % CsumMod
    ELSE x

RECURSIVE HashFields(_)
HashFields(fs) ==
    IF fs = <<>> THEN 3
    ELSE (37 * HashFields(Tail(fs)) + 5 * Head(fs).type + 11 * Head(fs).u64s
            + HashSeq([k \in 1..Len(Head(fs).data) |->
                          ItemNum(Head(fs).type, Head(fs).data[k])])) % CsumMod

\* csum_vstruct(c, type, nonce 0, sb): digest of the whole image except the
\* checksum word itself
csum_vstruct(type, sb) ==
    ( type
    + 3 * (IF sb.magic = BCACHE_MAGIC THEN 1 ELSE 2)
    + 5 * sb.version + 7 * sb.seq + 11 * sb.block_size + 13 * sb.nr_devices
    + 17 * sb.dev_idx + 19 * sb.offset + 23 * sb.u64s + 29 * sb.time_precision
    + 31 * sb.uuid + 37 * sb.user_uuid
    + 41 * sb.flags.meta_want + 43 * sb.flags.meta_req
    + 47 * sb.flags.data_want + 53 * sb.flags.data_req
    + 59 * sb.flags.btree_node_size + 61 * sb.flags.gc_reserve
    + 67 * sb.flags.csum_type
    + 71 * sb.layout.nr_superblocks + 73 * sb.layout.sb_max_size_bits
    + 79 * sb.layout.layout_type
    + 83 * (IF sb.layout.magic = BCACHE_MAGIC THEN 1 ELSE 2)
    + HashSeq(sb.layout.sb_offset)
    + HashFields(sb.fields) ) % CsumMod

-----------------------------------------------------------------------------
(* Layout validator *)

INT_MIN == -2147483647 - 1

\* max_sectors = 1 << layout->sb_max_size_bits: the shift is made on an int and
\* its result converted to u64. A negative value stands for the u64 it is
\* sign-extended to (2^64 plus the value). A count of 32 or more is undefined:
\* the shift instruction of the target takes the count modulo 32, or yields 0
int_shl(bits) == IF bits % 32 = 31 THEN INT_MIN ELSE Pow2(bits % 32)

ShiftOutcomes(bits) == IF bits < 32 THEN {int_shl(bits)} ELSE {int_shl(bits), 0}

\* offset < prev_offset + max_sectors on u64, for offsets below 2^31: with a
\* sign-extended max_sectors the sum is at least 2^63
u64_below_sum(offset, prev_offset, max_sectors) ==
    \/ prev_offset + max_sectors < 0
    \/ offset < prev_offset + max_sectors

RECURSIVE layout_overlap(_, _, _)
\* the loop of validate_sb_layout from index i on: TRUE iff some offset is
\* closer than max_sectors to its predecessor
layout_overlap(layout, i, max_sectors) ==
    IF i > layout.nr_superblocks THEN FALSE
    ELSE IF u64_below_sum(layout.sb_offset[i], layout.sb_offset[i - 1], max_sectors)
    THEN TRUE
    ELSE layout_overlap(layout, i + 1, max_sectors)

\* validate_sb_layout(layout), max_sectors being what the shift yielded
validate_sb_layout_with(layout, max_sectors) ==
    IF layout.magic # BCACHE_MAGIC
    THEN "Not a bcachefs superblock layout"
    ELSE IF layout.layout_type # 0
    THEN "Invalid superblock layout type"
    ELSE IF layout.nr_superblocks = 0
    THEN "Invalid superblock layout: no superblocks"
    ELSE IF layout.nr_superblocks > BCH_SB_LAYOUT_NR
    THEN "Invalid superblock layout: too many superblocks"
    ELSE IF layout_overlap(layout, 2, max_sectors)
    THEN "Invalid superblock layout: superblocks overlap"
    ELSE NULL

\* validate_sb_layout on a layout whose sb_max_size_bits is below 31, where the
\* shift has one outcome
validate_sb_layout(layout) ==
    validate_sb_layout_with(layout, int_shl(layout.sb_max_size_bits))

-----------------------------------------------------------------------------
(* Superblock buffer manager *)

ZeroHandle == [bdev |-> "NULL", mode |-> {}, bio |-> 0, sb |-> <<>>, page_order |-> 0]

ZeroLayout ==
    [magic |-> "zero", layout_type |-> 0, nr_superblocks |-> 0,
     sb_max_size_bits |-> 0, sb_offset |-> <<>>]

\* contents of a buffer that holds no superblock image (fresh pages, or the
\* bytes of the layout sector)
NoImage ==
    [magic |-> "none", version |-> 0, seq |-> 0, uuid |-> 0, user_uuid |-> 0,
     block_size |-> 0, nr_devices |-> 0, dev_idx |-> 0, time_precision |-> 0,
     flags |-> [initialized |-> 0, csum_type |-> 0, meta_want |-> 0, meta_req |-> 0,
                data_want |-> 0, data_req |-> 0, btree_node_size |-> 0,
                gc_reserve |-> 0],
     offset |-> 0, csum |-> 0, u64s |-> 0, layout |-> ZeroLayout, fields |-> <<>>]

\* bch2_free_super: put the bio, close the device, free the pages, zero the handle
bch2_free_super(h, res) ==
    [sb  |-> ZeroHandle,
     res |-> [bios  |-> res.bios  - (IF h.bio # 0 THEN 1 ELSE 0),
              opens |-> res.opens - (IF h.bdev = "open" THEN 1 ELSE 0),
              pages |-> res.pages - (IF h.sb # <<>> THEN 1 ELSE 0)]]

\* __bch2_super_realloc(sb, order); a is the outcome of the allocations:
\* "ok", "fault" (dynamic_fault), "nobio" (bio_kmalloc fails),
\* "nopages" (__get_free_pages fails)
__bch2_super_realloc(h, res, order, a) ==
    IF h.page_order >= order /\ h.sb # <<>>
    THEN [ret |-> 0, sb |-> h, res |-> res]
    ELSE IF a \in {"fault", "nobio"}
    THEN [ret |-> -ENOMEM, sb |-> h, res |-> res]
    ELSE LET h1 == [h EXCEPT !.bio = Pow2(order)]
             res1 == [res EXCEPT !.bios = @ + 1 - (IF h.bio # 0 THEN 1 ELSE 0)]
         IN  IF a = "nopages"
             THEN [ret |-> -ENOMEM, sb |-> h1, res |-> res1]
             ELSE [ret |-> 0,
                   sb  |-> [h1 EXCEPT !.sb = IF h.sb # <<>> THEN h.sb ELSE <<NoImage>>,
                                      !.page_order = order],
                   res |-> [res1 EXCEPT !.pages = @ + 1 - (IF h.sb # <<>> THEN 1 ELSE 0)]]

AllocOutcomes == {"ok", "fault", "nobio", "nopages"}

-----------------------------------------------------------------------------
(* Field directory *)

BCH_SB_FIELD_journal == 0
BCH_SB_FIELD_members == 1
BCH_SB_FIELD_crypt == 2
BCH_SB_FIELD_replicas == 3
BCH_SB_FIELD_NR == 4

\* sizeof(struct bch_member) / sizeof(u64)
MEMBER_U64S == 7

RECURSIVE field_index(_, _, _)
field_index(fs, type, i) ==
    IF i > Len(fs) THEN 0
    ELSE IF fs[i].type = type THEN i
    ELSE field_index(fs, type, i + 1)

\* bch2_sb_field_get: position of the first field of the type, 0 for NULL
bch2_sb_field_get(sb, type) == field_index(sb.fields, type, 1)

\* f ? le32_to_cpu(f->u64s) : 0
field_u64s(sb, type) ==
    IF bch2_sb_field_get(sb, type) = 0 THEN 0
    ELSE sb.fields[bch2_sb_field_get(sb, type)].u64s

\* number of payload items a field of u64s words can hold: journal buckets
\* (one word each), members (MEMBER_U64S words each), bytes of replica entries
field_capacity(type, u64s) ==
    IF u64s = 0 THEN 0
    ELSE IF type = BCH_SB_FIELD_members THEN (u64s - 1) \div MEMBER_U64S
    ELSE IF type = BCH_SB_FIELD_replicas THEN 8 * (u64s - 1)
    ELSE u64s - 1

Trunc(data, n) == SubSeq(data, 1, Min(Len(data), n))

\* the fields of fs without the i-th
without_field(fs, i) ==
    [k \in 1..(Len(fs) - 1) |-> IF k < i THEN fs[k] ELSE fs[k + 1]]

\* __bch2_sb_field_resize(sb, f, u64s), f given by its position (0 for NULL).
\* A field's data is the prefix of its payload that was written; the words
\* beyond it are zero (the memset of the resize).
\* u64s counts the header word of the field: with u64s = 0 vstruct_end(f) is f
\* itself, so a new field is a header written past the end of the image, which
\* no walk of the image reaches, and an existing field is overwritten by the
\* fields that follow it (the memmove onto dst = f).
__bch2_sb_field_resize(sb, i, u64s) ==
    IF i = 0
    THEN IF u64s = 0 THEN sb
         ELSE [sb EXCEPT !.fields = Append(@, [type |-> 0, u64s |-> u64s, data |-> <<>>]),
                         !.u64s = @ + u64s]
    ELSE IF u64s = 0
    THEN [sb EXCEPT !.fields = without_field(@, i),
                    !.u64s = @ - sb.fields[i].u64s]
    ELSE [sb EXCEPT !.fields[i].u64s = u64s,
                    !.fields[i].data = Trunc(@, field_capacity(sb.fields[i].type, u64s)),
                    !.u64s = @ + u64s - sb.fields[i].u64s]

\* position of the field __bch2_sb_field_resize returns
resized_index(sb, i) == IF i = 0 THEN Len(sb.fields) + 1 ELSE i

RECURSIVE copy_fields(_, _, _)
\* the vstruct_for_each loop of __copy_super from the k-th field of src on
copy_fields(dst, src_fields, k) ==
    IF k > Len(src_fields) THEN dst
    ELSE IF src_fields[k].type = BCH_SB_FIELD_journal
    THEN copy_fields(dst, src_fields, k + 1)
    ELSE LET i  == bch2_sb_field_get(dst, src_fields[k].type)
             d1 == __bch2_sb_field_resize(dst, i, src_fields[k].u64s)
         IN  copy_fields([d1 EXCEPT !.fields[resized_index(dst, i)] = src_fields[k]],
                         src_fields, k + 1)

\* __copy_super(dst, src)
__copy_super(dst, src) ==
    copy_fields([dst EXCEPT !.version = src.version,
                            !.seq = src.seq,
                            !.uuid = src.uuid,
                            !.user_uuid = src.user_uuid,
                            !.block_size = src.block_size,
                            !.nr_devices = src.nr_devices,
                            !.time_precision = src.time_precision,
                            !.flags = src.flags],
                src.fields, 1)

\* f->type = type on the pointer __bch2_sb_field_resize returned: the field at
\* position pos of the image, or bytes past its end when there is none
field_set_type(sb, pos, type) ==
    IF pos > Len(sb.fields) THEN sb
    ELSE [sb EXCEPT !.fields[pos].type = type]

\* a mutation of bch2_sb_realloc: no comparison with the size budget
bch2_sb_realloc_any_size(h, res, u64s, a) ==
    __bch2_super_realloc(h, res, get_order(sb_bytes(u64s)), a)

\* bch2_sb_realloc(sb, u64s)
bch2_sb_realloc(h, res, u64s, a) ==
    IF sb_bytes(u64s) > 512 * Pow2(h.sb[1].layout.sb_max_size_bits)
    THEN [ret |-> -ENOSPC, sb |-> h, res |-> res]
    ELSE __bch2_super_realloc(h, res, get_order(sb_bytes(u64s)), a)

\* bch2_sb_field_resize once bch2_sb_realloc returned ra. f was looked up
\* before bch2_sb_realloc: when the field exists and the realloc replaced the
\* buffer (moved), f points into the freed pages, the resize moves bytes there
\* and only the u64s of the image in the new buffer is updated (uaf)
sb_field_resized(h, type, u64s, ra, moved) ==
    IF ra.ret # 0
    THEN [f |-> 0, err |-> ra.ret, sb |-> ra.sb, res |-> ra.res, uaf |-> FALSE]
    ELSE IF moved /\ bch2_sb_field_get(h.sb[1], type) # 0
    THEN [f |-> bch2_sb_field_get(h.sb[1], type), err |-> 0,
          sb |-> [ra.sb EXCEPT !.sb[1].u64s = @ + u64s - field_u64s(h.sb[1], type)],
          res |-> ra.res, uaf |-> TRUE]
    ELSE [f |-> resized_index(h.sb[1], bch2_sb_field_get(h.sb[1], type)),
          err |-> 0, uaf |-> FALSE,
          sb |-> [ra.sb EXCEPT !.sb = <<field_set_type(
                     __bch2_sb_field_resize(h.sb[1], bch2_sb_field_get(h.sb[1], type), u64s),
                     resized_index(h.sb[1], bch2_sb_field_get(h.sb[1], type)), type)>>],
          res |-> ra.res]

\* bch2_sb_field_resize(sb, type, u64s) on the handle h: f is the position of
\* the field returned, 0 for NULL; err is what bch2_sb_realloc returned
bch2_sb_field_resize(h, res, type, u64s, a) ==
    sb_field_resized(h, type, u64s,
        bch2_sb_realloc(h, res, h.sb[1].u64s + u64s - field_u64s(h.sb[1], type), a),
        ~(h.page_order >= get_order(sb_bytes(
             h.sb[1].u64s + u64s - field_u64s(h.sb[1], type)))))

\* bch2_sb_from_fs after bch2_sb_realloc returned ra: __copy_super(dst, src),
\* dst being the buffer of h; moved tells that the realloc replaced that buffer
from_fs_copy(src, h, ra, moved) ==
    IF ra.ret # 0
    THEN [ret |-> ra.ret, sb |-> ra.sb, res |-> ra.res, uaf |-> FALSE]
    ELSE IF moved
    THEN [ret |-> 0, sb |-> ra.sb, res |-> ra.res, uaf |-> TRUE]
    ELSE [ret |-> 0, sb |-> [ra.sb EXCEPT !.sb = <<__copy_super(h.sb[1], src)>>],
          res |-> ra.res, uaf |-> FALSE]

\* bch2_sb_from_fs(c, ca): src is c->disk_sb, h is ca->disk_sb. dst is taken
\* from ca->disk_sb.sb before bch2_sb_realloc; when the buffer is reallocated
\* dst points to the freed pages and __copy_super writes there (uaf): the
\* pages now installed in the handle keep the image as it was.
bch2_sb_from_fs(src, h, res, a) ==
    from_fs_copy(src, h,
                 bch2_sb_realloc(h, res,
                                 src.u64s + field_u64s(h.sb[1], BCH_SB_FIELD_journal), a),
                 ~(h.page_order >= get_order(sb_bytes(
                      src.u64s + field_u64s(h.sb[1], BCH_SB_FIELD_journal)))))

-----------------------------------------------------------------------------
(* Replicas field and replica index *)

BCH_DATA_NR == 5
BCH_REPLICAS_MAX == 4

\* the k-th byte (from 0) of the entries of a replicas field
RepByte(f, k) == IF k < Len(f.data) THEN f.data[k + 1] ELSE 0

RECURSIVE replicas_end_from(_, _)
\* for_each_replicas_entry: the byte position at which the iteration stops
replicas_end_from(f, k) ==
    IF k >= 8 * (f.u64s - 1) \/ RepByte(f, k) = 0 THEN k
    ELSE replicas_end_from(f, k + 2 + RepByte(f, k + 1))

RECURSIVE replicas_entries_from(_, _)
\* for_each_replicas_entry: the entries visited, starting at byte k
replicas_entries_from(f, k) ==
    IF k >= 8 * (f.u64s - 1) \/ RepByte(f, k) = 0 THEN <<>>
    ELSE <<[data_type |-> RepByte(f, k),
            devs |-> [j \in 1..RepByte(f, k + 1) |-> RepByte(f, k + 1 + j)]]>>
         \o replicas_entries_from(f, k + 2 + RepByte(f, k + 1))

\* the entries of the replicas field of an image (none when the field is absent)
sb_replicas_entries(sb) ==
    IF bch2_sb_field_get(sb, BCH_SB_FIELD_replicas) = 0 THEN <<>>
    ELSE replicas_entries_from(sb.fields[bch2_sb_field_get(sb, BCH_SB_FIELD_replicas)], 0)

SeqMax(s) ==
    IF s = <<>> THEN 0 ELSE CHOOSE m \in {s[k] : k \in 1..Len(s)} :
                                \A k \in 1..Len(s) : s[k] <= m

\* bch2_sb_replicas_nr_entries(r, &nr, &bytes, &max_dev)
bch2_sb_replicas_nr_entries(sb) ==
    LET i  == bch2_sb_field_get(sb, BCH_SB_FIELD_replicas)
        es == sb_replicas_entries(sb)
    IN  [nr |-> Len(es),
         bytes |-> IF i = 0 THEN 8 ELSE 8 + replicas_end_from(sb.fields[i], 0),
         max_dev |-> SeqMax([k \in 1..Len(es) |-> SeqMax(es[k].devs)])]

DivRoundUp(n, d) == (n + d - 1) \div d

SeqToSet(s) == {s[k] : k \in 1..Len(s)}

RECURSIVE byte_of(_, _, _)
\* byte j of a device bitmap, the bits taken from 8 * j + b on
byte_of(devs, j, b) ==
    IF b > 7 THEN 0
    ELSE (IF 8 * j + b \in devs THEN Pow2(b) ELSE 0) + byte_of(devs, j, b + 1)

RECURSIVE entry_memcmp_less(_, _, _, _)
\* memcmp(l, r, entry_size) < 0 on the device bitmaps from byte j on
entry_memcmp_less(l, r, j, n) ==
    IF j >= n THEN FALSE
    ELSE IF byte_of(l, j, 0) # byte_of(r, j, 0) THEN byte_of(l, j, 0) < byte_of(r, j, 0)
    ELSE entry_memcmp_less(l, r, j + 1, n)

\* memcmp of two index entries (data_type byte, then the bitmap) is < 0
cpu_entry_less(l, r, entry_size) ==
    IF l.data_type # r.data_type THEN l.data_type < r.data_type
    ELSE entry_memcmp_less(l.devs, r.devs, 0, entry_size - 1)

\* eytzinger0_sort / sort_cmp_size with memcmp
sort_entries(es, entry_size) ==
    SortSeq(es, LAMBDA l, r : cpu_entry_less(l, r, entry_size))

\* __bch2_sb_replicas_to_cpu_replicas(sb_r); an index entry is a data type and
\* the set of devices whose bits are set
__bch2_sb_replicas_to_cpu_replicas(sb) ==
    LET n  == bch2_sb_replicas_nr_entries(sb)
        es == sb_replicas_entries(sb)
        entry_size == 1 + DivRoundUp(n.max_dev + 1, 8)
    IN  [entry_size |-> entry_size,
         entries |-> sort_entries([k \in 1..n.nr |->
                                     [data_type |-> es[k].data_type,
                                      devs |-> SeqToSet(es[k].devs)]],
                                  entry_size)]

\* a mutation of replicas_dev_slots: the last bit of the bitmap is left out
replicas_dev_slots_short(r) == (r.entry_size - 1) * 8 - 1

\* replicas_dev_slots(r)
replicas_dev_slots(r) == (r.entry_size - 1) * 8

-----------------------------------------------------------------------------
(* Superblock validator *)

PAGE_SECTORS == 8
BCH_SB_MEMBERS_MAX == 64
BTREE_NODE_SIZE_MAX == 512
NSEC_PER_SEC == 1000000000
\* LONG_MAX of the host is 2^63 - 1; every bucket count of the model lies below
\* the largest integer of the model, which stands for it
LONG_MAX == 2147483647

is_power_of_2(n) == \E k \in 0..16 : n = Pow2(k)

ZeroMember == [uuid |-> 0, nbuckets |-> 0, first_bucket |-> 0, bucket_size |-> 0]

\* mi->members[i], i from 0; the payload beyond the written entries is zero
member_at(f, i) == IF i < Len(f.data) THEN f.data[i + 1] ELSE ZeroMember

\* bch2_dev_exists(sb, mi, dev)
bch2_dev_exists(sb, f, dev) ==
    dev < sb.nr_devices /\ member_at(f, dev).uuid # 0

\* bch2_sb_validate_members
bch2_sb_validate_members(sb) ==
    LET i == bch2_sb_field_get(sb, BCH_SB_FIELD_members) IN
    IF i = 0
    THEN "Invalid superblock: member info area missing"
    ELSE IF 1 + MEMBER_U64S * sb.nr_devices > sb.fields[i].u64s
    THEN "Invalid superblock: bad member info"
    ELSE IF \E d \in 0..(sb.nr_devices - 1) :
              /\ bch2_dev_exists(sb, sb.fields[i], d)
              /\ member_at(sb.fields[i], d).bucket_size < sb.flags.btree_node_size
    THEN "bucket size smaller than btree node size"
    ELSE NULL

\* bch2_sb_validate_journal(sb, mi)
bch2_sb_validate_journal(sb, mi) ==
    LET i == bch2_sb_field_get(sb, BCH_SB_FIELD_journal) IN
    IF i = 0 THEN NULL
    ELSE LET nr == sb.fields[i].u64s - 1
             b  == SortSeq([k \in 1..nr |->
                              IF k <= Len(sb.fields[i].data)
                              THEN sb.fields[i].data[k] ELSE 0],
                           LAMBDA x, y : x < y)
         IN  IF nr = 0 THEN NULL
             ELSE IF b[1] = 0 THEN "journal bucket at sector 0"
             ELSE IF b[1] < mi.first_bucket THEN "journal bucket before first bucket"
             ELSE IF b[nr] >= mi.nbuckets THEN "journal bucket past end of device"
             ELSE IF \E k \in 1..(nr - 1) : b[k] = b[k + 1] THEN "duplicate journal buckets"
             ELSE NULL

\* err = ...; if (err) return err; and what follows
err_or(err, rest) == IF err # NULL THEN err ELSE rest

RECURSIVE replicas_entry_err(_, _, _, _)
\* the first loop of bch2_sb_validate_replicas, from entry k on
replicas_entry_err(sb, mi, es, k) ==
    IF k > Len(es) THEN NULL
    ELSE IF es[k].data_type >= BCH_DATA_NR
    THEN "invalid replicas entry: invalid data type"
    ELSE IF Len(es[k].devs) >= BCH_REPLICAS_MAX
    THEN "invalid replicas entry: too many devices"
    ELSE IF \E j \in 1..Len(es[k].devs) : ~bch2_dev_exists(sb, mi, es[k].devs[j])
    THEN "invalid replicas entry: invalid device"
    ELSE replicas_entry_err(sb, mi, es, k + 1)

\* a mutation of has_adjacent_equal: only the first two entries are compared
has_equal_first_pair(srt) == Len(srt) >= 2 /\ srt[1] = srt[2]

\* some entry of the sorted index equals its successor
has_adjacent_equal(srt) == \E k \in 1..(Len(srt) - 1) : srt[k] = srt[k + 1]

\* the index bch2_sb_validate_replicas builds and sorts to look for duplicates
validate_replicas_sorted(cpu_r) == sort_entries(cpu_r.entries, cpu_r.entry_size)

\* bch2_sb_validate_replicas
bch2_sb_validate_replicas(sb) ==
    IF bch2_sb_field_get(sb, BCH_SB_FIELD_replicas) = 0 THEN NULL
    ELSE err_or(replicas_entry_err(sb,
                    sb.fields[bch2_sb_field_get(sb, BCH_SB_FIELD_members)],
                    sb_replicas_entries(sb), 1),
                IF has_adjacent_equal(
                       validate_replicas_sorted(__bch2_sb_replicas_to_cpu_replicas(sb)))
                THEN "duplicate replicas entry"
                ELSE NULL)

RECURSIVE fields_err(_, _, _)
\* the vstruct_for_each loop of bch2_sb_validate; at is the word offset of the
\* k-th field
fields_err(sb, k, at) ==
    IF k > Len(sb.fields) \/ at >= sb.u64s THEN NULL
    ELSE IF sb.fields[k].u64s = 0
    THEN "Invalid superblock: invalid optional field"
    ELSE IF at + sb.fields[k].u64s > sb.u64s
    THEN "Invalid superblock: invalid optional field"
    ELSE IF sb.fields[k].type >= BCH_SB_FIELD_NR
    THEN "Invalid superblock: unknown optional field type"
    ELSE fields_err(sb, k + 1, at + sb.fields[k].u64s)

\* the checks of bch2_sb_validate on the local member entry
local_member_err(sb, mi, capacity) ==
    IF mi.nbuckets > LONG_MAX
    THEN "Too many buckets"
    ELSE IF mi.nbuckets >= mi.first_bucket /\ mi.nbuckets - mi.first_bucket < 1024
    THEN "Not enough buckets"
    ELSE IF \/ ~is_power_of_2(mi.bucket_size)
            \/ mi.bucket_size < PAGE_SECTORS
            \/ mi.bucket_size < sb.block_size
    THEN "Bad bucket size"
    ELSE IF capacity < mi.bucket_size * mi.nbuckets
    THEN "Invalid superblock: device too small"
    ELSE NULL

replica_count_bad(n) == n = 0 \/ n >= BCH_REPLICAS_MAX

\* the checks of bch2_sb_validate that follow the header checks
local_member(sb) ==
    member_at(sb.fields[bch2_sb_field_get(sb, BCH_SB_FIELD_members)], sb.dev_idx)

\* a mutation of validate_fields: the journal is checked before the members
validate_fields_journal_first(sb, capacity) ==
    err_or(fields_err(sb, 1, 0),
    err_or(IF bch2_sb_field_get(sb, BCH_SB_FIELD_members) = 0 THEN NULL
           ELSE bch2_sb_validate_journal(sb, local_member(sb)),
    err_or(bch2_sb_validate_members(sb),
    err_or(local_member_err(sb, local_member(sb), capacity),
           bch2_sb_validate_replicas(sb)))))

\* the checks of bch2_sb_validate from the loop over the fields on
validate_fields(sb, capacity) ==
    err_or(fields_err(sb, 1, 0),
    err_or(bch2_sb_validate_members(sb),
    err_or(local_member_err(sb, local_member(sb), capacity),
    err_or(bch2_sb_validate_journal(sb, local_member(sb)),
           bch2_sb_validate_replicas(sb)))))

\* bch2_sb_validate(disk_sb); capacity is get_capacity(disk_sb->bdev->bd_disk)
bch2_sb_validate(sb, capacity) ==
    IF sb.version # BCACHE_SB_VERSION_CDEV_V4
    THEN "Unsupported superblock version"
    ELSE IF ~is_power_of_2(sb.block_size) \/ sb.block_size > PAGE_SECTORS
    THEN "Bad block size"
    ELSE IF sb.user_uuid = 0
    THEN "Bad user UUID"
    ELSE IF sb.uuid = 0
    THEN "Bad internal UUID"
    ELSE IF \/ sb.nr_devices = 0
            \/ sb.nr_devices <= sb.dev_idx
            \/ sb.nr_devices > BCH_SB_MEMBERS_MAX
    THEN "Bad cache device number in set"
    ELSE IF replica_count_bad(sb.flags.meta_want)
    THEN "Invalid number of metadata replicas"
    ELSE IF replica_count_bad(sb.flags.meta_req)
    THEN "Invalid number of metadata replicas"
    ELSE IF replica_count_bad(sb.flags.data_want)
    THEN "Invalid number of data replicas"
    ELSE IF replica_count_bad(sb.flags.data_req)
    THEN "Invalid number of metadata replicas"
    ELSE IF sb.flags.btree_node_size = 0
    THEN "Btree node size not set"
    ELSE IF ~is_power_of_2(sb.flags.btree_node_size)
    THEN "Btree node size not a power of two"
    ELSE IF sb.flags.btree_node_size > BTREE_NODE_SIZE_MAX
    THEN "Btree node size too large"
    ELSE IF sb.flags.gc_reserve < 5
    THEN "gc reserve percentage too small"
    ELSE IF sb.time_precision = 0 \/ sb.time_precision > NSEC_PER_SEC
    THEN "invalid time precision"
    ELSE err_or(validate_sb_layout(sb.layout), validate_fields(sb, capacity))

-----------------------------------------------------------------------------
(* Read path *)

\* bdev_logical_block_size of the shim: st_blksize >> 9, or BLKPBSZGET >> 9
bdev_logical_block_size(bytes) == bytes \div 512

\* the checks of read_one_super on the header that was read, before the
\* buffer is grown
read_header_err(img) ==
    IF img.magic # BCACHE_MAGIC
    THEN "Not a bcachefs superblock"
    ELSE IF img.version # BCACHE_SB_VERSION_CDEV_V4
    THEN "Unsupported superblock version"
    ELSE IF vstruct_bytes(img) > 512 * Pow2(img.layout.sb_max_size_bits)
    THEN "Bad superblock: too big"
    ELSE NULL

\* the checks of read_one_super once the whole image is in the buffer
read_csum_err(img) ==
    IF img.flags.csum_type >= BCH_CSUM_NR
    THEN "unknown csum type"
    ELSE IF csum_vstruct(img.flags.csum_type, img) # img.csum
    THEN "bad checksum reading superblock"
    ELSE NULL

\* read_one_super(sb, offset) on a device holding disk, with the sectors of
\* ioerr failing; a is the outcome of the allocation made when the buffer has
\* to grow. Yields the error, the handle, the live resources and the sectors read.
read_one_super(disk, ioerr, h, res, offset, a) ==
    LET img == disk[offset]
        h1  == [h EXCEPT !.sb = <<img>>]
        order == get_order(vstruct_bytes(img))
    IN  IF offset \in ioerr
        THEN [err |-> "IO error", sb |-> h, res |-> res, reads |-> <<offset>>]
        ELSE IF read_header_err(img) # NULL
        THEN [err |-> read_header_err(img), sb |-> h1, res |-> res, reads |-> <<offset>>]
        ELSE IF order > h.page_order
        THEN LET ra == __bch2_super_realloc(h1, res, order, a) IN
             IF ra.ret # 0
             THEN [err |-> "cannot allocate memory", sb |-> ra.sb, res |-> ra.res,
                   reads |-> <<offset>>]
             ELSE [err |-> read_csum_err(img),
                   sb |-> [ra.sb EXCEPT !.sb = <<img>>], res |-> ra.res,
                   reads |-> <<offset, offset>>]
        ELSE [err |-> read_csum_err(img), sb |-> h1, res |-> res, reads |-> <<offset>>]

\* offset = opt_defined(opts.sb) ? opts.sb : BCH_SB_SECTOR
read_offset(opts) == IF opts.sb_defined THEN opts.sb ELSE BCH_SB_SECTOR

read_mode(opts) ==
    {"FMODE_READ"} \cup (IF opts.noexcl THEN {} ELSE {"FMODE_EXCL"})
                   \cup (IF opts.nochanges THEN {} ELSE {"FMODE_WRITE"})

\* the test of bch2_read_super after got_super: TRUE when the superblock is
\* rejected for its block size
read_block_size_too_small(img, lbs) ==
    img.block_size * 512 < bdev_logical_block_size(lbs)

\* a mutation of read_fallback_allowed: the fallback is taken for any offset
read_fallback_always(off) == TRUE

\* after a failed read at the primary offset, bch2_read_super goes on to the
\* layout only if the offset is the default one
read_fallback_allowed(off) == off = BCH_SB_SECTOR

\* the err label of bch2_read_super: bch2_free_super(sb); return err
ReadFail(e, h, res) ==
    /\ r_sb'  = bch2_free_super(h, res).sb
    /\ r_res' = bch2_free_super(h, res).res
    /\ r_err' = e
    /\ r_pc'  = "done"

rdisk == <<r_disk, r_disk_layout, r_ioerr, r_lbs, r_opts>>

\* memset, mode, bch2_blkdev_open
ReadOpen ==
    /\ r_pc = "open"
    /\ \E o \in {"ok", "device busy", "failed to open device"} :
         IF o = "ok"
         THEN /\ r_sb' = [ZeroHandle EXCEPT !.mode = read_mode(r_opts), !.bdev = "open"]
              /\ r_res' = [r_res EXCEPT !.opens = @ + 1]
              /\ r_opened' = TRUE
              /\ r_pc' = "alloc"
              /\ UNCHANGED r_err
         ELSE /\ r_sb' = [ZeroHandle EXCEPT !.mode = read_mode(r_opts)]
              /\ r_err' = o
              /\ r_pc' = "done"
              /\ UNCHANGED <<r_res, r_opened>>
    /\ UNCHANGED <<r_reads, r_tried, r_i, r_layout, rdisk, wvars, pvars, xvars, bvars>>

\* __bch2_super_realloc(sb, 0)
ReadAlloc ==
    /\ r_pc = "alloc"
    /\ \E a \in AllocOutcomes :
         LET ra == __bch2_super_realloc(r_sb, r_res, 0, a) IN
         IF ra.ret # 0
         THEN ReadFail("cannot allocate memory", ra.sb, ra.res)
         ELSE /\ r_sb' = ra.sb
              /\ r_res' = ra.res
              /\ r_pc' = "fault"
              /\ UNCHANGED r_err
    /\ UNCHANGED <<r_reads, r_tried, r_i, r_layout, r_opened, rdisk, wvars, pvars, xvars, bvars>>

\* bch2_fs_init_fault("read_super")
ReadFault ==
    /\ r_pc = "fault"
    /\ \E f \in BOOLEAN :
         IF f
         THEN ReadFail("dynamic fault", r_sb, r_res)
         ELSE /\ r_pc' = "primary"
              /\ UNCHANGED <<r_sb, r_res, r_err>>
    /\ UNCHANGED <<r_reads, r_tried, r_i, r_layout, r_opened, rdisk, wvars, pvars, xvars, bvars>>

\* read_one_super at the primary offset
ReadPrimary ==
    /\ r_pc = "primary"
    /\ \E a \in AllocOutcomes :
         LET off == read_offset(r_opts)
             ro  == read_one_super(r_disk, r_ioerr, r_sb, r_res, off, a)
         IN  /\ r_reads' = r_reads \o ro.reads
             /\ r_tried' = Append(r_tried, [offset |-> off, err |-> ro.err])
             /\ IF ro.err = NULL
                THEN /\ r_sb' = ro.sb
                     /\ r_res' = ro.res
                     /\ r_err' = NULL
                     /\ r_pc' = "got_super"
                ELSE IF ~read_fallback_allowed(off)
                THEN ReadFail(ro.err, ro.sb, ro.res)
                ELSE /\ r_sb' = ro.sb
                     /\ r_res' = ro.res
                     /\ r_err' = ro.err
                     /\ r_pc' = "layout"
    /\ UNCHANGED <<r_i, r_layout, r_opened, rdisk, wvars, pvars, xvars, bvars>>

\* read of the layout sector into the superblock buffer, validate_sb_layout
ReadLayout ==
    /\ r_pc = "layout"
    /\ r_reads' = Append(r_reads, BCH_SB_LAYOUT_SECTOR)
    /\ IF BCH_SB_LAYOUT_SECTOR \in r_ioerr
       THEN /\ ReadFail("IO error", r_sb, r_res)
            /\ UNCHANGED <<r_layout, r_i>>
       ELSE IF validate_sb_layout(r_disk_layout) # NULL
       THEN /\ ReadFail(validate_sb_layout(r_disk_layout),
                        [r_sb EXCEPT !.sb = <<NoImage>>], r_res)
            /\ r_layout' = r_disk_layout
            /\ UNCHANGED r_i
       ELSE /\ r_layout' = r_disk_layout
            /\ r_sb' = [r_sb EXCEPT !.sb = <<NoImage>>]
            /\ r_err' = NULL
            /\ r_i' = 0
            /\ r_pc' = "backup"
            /\ UNCHANGED r_res
    /\ UNCHANGED <<r_tried, r_opened, rdisk, wvars, pvars, xvars, bvars>>

\* one iteration of the loop over layout.sb_offset, or its exit to err
ReadBackup ==
    /\ r_pc = "backup"
    /\ IF r_i >= r_layout.nr_superblocks
       THEN /\ ReadFail(r_err, r_sb, r_res)
            /\ UNCHANGED <<r_i, r_reads, r_tried>>
       ELSE IF r_layout.sb_offset[r_i + 1] = BCH_SB_SECTOR
       THEN /\ r_i' = r_i + 1
            /\ UNCHANGED <<r_sb, r_res, r_err, r_pc, r_reads, r_tried>>
       ELSE \E a \in AllocOutcomes :
            LET off == r_layout.sb_offset[r_i + 1]
                ro  == read_one_super(r_disk, r_ioerr, r_sb, r_res, off, a)
            IN  /\ r_reads' = r_reads \o ro.reads
                /\ r_tried' = Append(r_tried, [offset |-> off, err |-> ro.err])
                /\ r_sb' = ro.sb
                /\ r_res' = ro.res
                /\ r_err' = ro.err
                /\ IF ro.err = NULL
                   THEN r_pc' = "got_super" /\ UNCHANGED r_i
                   ELSE r_pc' = "backup" /\ r_i' = r_i + 1
    /\ UNCHANGED <<r_layout, r_opened, rdisk, wvars, pvars, xvars, bvars>>

\* got_super: the block size test, return NULL
ReadGotSuper ==
    /\ r_pc = "got_super"
    /\ IF read_block_size_too_small(r_sb.sb[1], r_lbs)
       THEN ReadFail("Superblock block size smaller than device block size",
                     r_sb, r_res)
       ELSE /\ r_err' = NULL
            /\ r_pc' = "done"
            /\ UNCHANGED <<r_sb, r_res>>
    /\ UNCHANGED <<r_reads, r_tried, r_i, r_layout, r_opened, rdisk, wvars, pvars, xvars, bvars>>

bch2_read_super ==
    \/ ReadOpen
    \/ ReadAlloc
    \/ ReadFault
    \/ ReadPrimary
    \/ ReadLayout
    \/ ReadBackup
    \/ ReadGotSuper

-----------------------------------------------------------------------------
(* Devices the read path is run on *)

\* the write path at rest: no filesystem is open
WriteIdle ==
    /\ w_pc = "idle"
    /\ c_disk_sb = NoImage
    /\ c_seq0 = 0
    /\ c_opts = [nochanges |-> FALSE, metadata_checksum |-> 0]
    /\ c_error = FALSE
    /\ c_inconsistent = FALSE
    /\ c_sb = <<>>
    /\ ca = <<>>
    /\ w_res = [bios |-> 0, pages |-> 0, opens |-> 0]
    /\ w_i = 0
    /\ w_super_idx = 0
    /\ w_wrote = FALSE
    /\ w_inflight = {}
    /\ w_cl = 0
    /\ w_media = <<>>
    /\ w_log = <<>>
    /\ w_uaf = {}

\* no gc cycle was started: the typemask of the last bch2_replicas_gc_start, the
\* err and the return value of the last bch2_replicas_gc_end are recorded
IdleGc == [pc |-> "idle", runs |-> 0, typemask |-> 0, err |-> FALSE, ret |-> 0]

\* the replica machine at rest
ReplIdle ==
    /\ sb_lock = 0
    /\ c_disk_sb_order = 0
    /\ c_replicas = 0
    /\ c_replicas_gc = 0
    /\ p_heap = <<>>
    /\ p_thr = <<>>
    /\ p_rd = <<>>
    /\ p_gc = IdleGc
    /\ p_writes = <<>>
    /\ p_bug = FALSE

\* no field resize and no validator call was made
CallIdle ==
    /\ f_last = <<>>
    /\ v_call = <<>>
    /\ v_ret = <<>>

\* the block I/O shim at rest: no bio was set up, the completion thread waits
\* in io_getevents
BioIdle ==
    /\ b_bio = <<>>
    /\ b_running = 0
    /\ b_aio = [inflight |-> {}, ring |-> <<>>]
    /\ b_events = <<>>
    /\ b_wait = [pc |-> "idle", bio |-> 0, done |-> FALSE, ret |-> 0]

GoodFlags ==
    [initialized |-> 1, csum_type |-> 1, meta_want |-> 1, meta_req |-> 1,
     data_want |-> 1, data_req |-> 1, btree_node_size |-> 8, gc_reserve |-> 8]

\* a layout with superblocks at the given sectors
MkLayout(bits, offsets) ==
    [magic |-> BCACHE_MAGIC, layout_type |-> 0, nr_superblocks |-> Len(offsets),
     sb_max_size_bits |-> bits, sb_offset |-> offsets]

\* sets the checksum of an image as write_one_super does
Sealed(sb) == [sb EXCEPT !.csum = csum_vstruct(sb.flags.csum_type, sb)]

ReadBits == 4
ReadSectors == <<8, 24, 40>>

\* a well-formed image of u64s words at sector off
MkImage(off, u64s, block_size) ==
    Sealed([magic |-> BCACHE_MAGIC, version |-> BCACHE_SB_VERSION_CDEV_V4,
            seq |-> 5, uuid |-> 1, user_uuid |-> 1, block_size |-> block_size,
            nr_devices |-> 1, dev_idx |-> 0, time_precision |-> 1,
            flags |-> GoodFlags, offset |-> off, csum |-> 0, u64s |-> u64s,
            layout |-> MkLayout(ReadBits, ReadSectors),
            fields |-> <<[type |-> BCH_SB_FIELD_members, u64s |-> u64s, data |-> <<>>]>>])

\* images a device may hold at a superblock sector: well-formed ones of one and
\* of two pages and with small block sizes, and damaged ones
BackupImages(off) ==
    { MkImage(off, 10, 8),
      MkImage(off, 500, 8),
      MkImage(off, 10, 1),
      [MkImage(off, 10, 8) EXCEPT !.csum = (@ + 1) % CsumMod] }

PrimaryImages(off) ==
    BackupImages(off) \cup
    { MkImage(off, 10, 0),
      [MkImage(off, 10, 8) EXCEPT !.magic = "garbage"],
      Sealed([MkImage(off, 10, 8) EXCEPT !.version = 6]),
      MkImage(off, 1000, 8),
      Sealed([MkImage(off, 10, 8) EXCEPT !.flags.csum_type = BCH_CSUM_NR]) }

ReadLayouts ==
    { MkLayout(ReadBits, ReadSectors),
      MkLayout(ReadBits, <<8>>),
      MkLayout(ReadBits, <<8, 16, 40>>),
      [MkLayout(ReadBits, ReadSectors) EXCEPT !.magic = "garbage"] }

ReadOpts ==
    { [sb_defined |-> FALSE, sb |-> 0, noexcl |-> FALSE, nochanges |-> FALSE],
      [sb_defined |-> TRUE, sb |-> 8, noexcl |-> FALSE, nochanges |-> TRUE],
      [sb_defined |-> TRUE, sb |-> 24, noexcl |-> TRUE, nochanges |-> FALSE] }

DiskSectors == {BCH_SB_LAYOUT_SECTOR, 8, 24, 40}

ReadInit ==
    /\ r_pc = "open"
    /\ r_opts \in ReadOpts
    /\ r_sb = ZeroHandle
    /\ r_err = NULL
    /\ r_res = [bios |-> 0, pages |-> 0, opens |-> 0]
    /\ r_reads = <<>>
    /\ r_tried = <<>>
    /\ r_i = 0
    /\ r_layout = ZeroLayout
    /\ r_opened = FALSE
    /\ \E p \in PrimaryImages(8), b1 \in BackupImages(24), b2 \in BackupImages(40) :
         r_disk = [s \in {8, 24, 40} |->
                     IF s = 8 THEN p ELSE IF s = 24 THEN b1 ELSE b2]
    /\ r_disk_layout \in ReadLayouts
    /\ r_ioerr \in {e \in SUBSET DiskSectors : Cardinality(e) <= MaxIoErr}
    /\ r_lbs \in {512, 4096}
    /\ WriteIdle
    /\ ReplIdle
    /\ CallIdle
    /\ BioIdle

SpecRead == ReadInit /\ [][bch2_read_super]_vars

-----------------------------------------------------------------------------
(* Properties of the read path *)

ReadDone == r_pc = "done"

NoResources == [bios |-> 0, pages |-> 0, opens |-> 0]

\* the call reads at the default sector and its first read_one_super failed
PrimaryFailedAtDefault ==
    /\ read_offset(r_opts) = BCH_SB_SECTOR
    /\ Len(r_tried) >= 1
    /\ r_tried[1].err # NULL

LayoutUsable ==
    /\ BCH_SB_LAYOUT_SECTOR \notin r_ioerr
    /\ validate_sb_layout(r_disk_layout) = NULL

\* the backup sectors of the device's layout, in layout order
BackupOffsets ==
    SelectSeq(r_disk_layout.sb_offset, LAMBDA o : o # BCH_SB_SECTOR)

\* the copy at sector off passes every test of read_one_super
CopyVerifies(off) ==
    /\ off \notin r_ioerr
    /\ read_header_err(r_disk[off]) = NULL
    /\ read_csum_err(r_disk[off]) = NULL

NoAllocFailure ==
    \A k \in 1..Len(r_tried) : r_tried[k].err # "cannot allocate memory"

\* sectors of the read_one_super calls after the first
TriedBackups == [k \in 1..(Len(r_tried) - 1) |-> r_tried[k + 1].offset]

IsPrefix(s, t) == Len(s) <= Len(t) /\ \A k \in 1..Len(s) : s[k] = t[k]

\* C7: with the default offset, a failed primary read and a readable, valid
\* layout, the backup sectors are tried in layout order; the call succeeds with
\* the first backup copy that verifies (the block size test still applies to
\* it) and fails when no backup copy verifies.
C7_FallbackToBackups ==
    (ReadDone /\ PrimaryFailedAtDefault /\ LayoutUsable /\ NoAllocFailure) =>
        /\ IsPrefix(TriedBackups, BackupOffsets)
        /\ \A k \in 1..Len(TriedBackups) :
              k < Len(TriedBackups) => ~CopyVerifies(TriedBackups[k])
        /\ IF \E k \in 1..Len(BackupOffsets) : CopyVerifies(BackupOffsets[k])
           THEN /\ TriedBackups # <<>>
                /\ CopyVerifies(TriedBackups[Len(TriedBackups)])
                /\ \/ r_err = NULL /\ r_sb.sb = <<r_disk[TriedBackups[Len(TriedBackups)]]>>
                   \/ r_err = "Superblock block size smaller than device block size"
           ELSE r_err # NULL

\* C7 restricted to layouts that list at least one backup sector
C7_FallbackWithBackups ==
    BackupOffsets # <<>> => C7_FallbackToBackups

\* C8: with an explicit offset other than the default one, a failed read at
\* that offset ends the call with that error; nothing but that offset is read.
C8_ExplicitOffsetFailsAtOnce ==
    ( /\ r_opts.sb_defined
      /\ r_opts.sb # BCH_SB_SECTOR
      /\ Len(r_tried) >= 1
      /\ r_tried[1].err # NULL ) =>
        /\ ReadDone
        /\ r_err = r_tried[1].err
        /\ Len(r_tried) = 1
        /\ \A k \in 1..Len(r_reads) : r_reads[k] = r_opts.sb

C8_Witness ==
    /\ ReadDone
    /\ r_opts.sb_defined
    /\ r_opts.sb # BCH_SB_SECTOR
    /\ Len(r_tried) = 1
    /\ r_tried[1].err = "bad checksum reading superblock"
    /\ validate_sb_layout(r_disk_layout) = NULL
    /\ CopyVerifies(40)

\* C9: a call that opened the device and returns an error has closed the
\* device, released the bio and the pages and zeroed the handle; a call that
\* returns success has released none of them.
C9_ReleasedExactlyOnFailure ==
    (ReadDone /\ r_opened) =>
        IF r_err # NULL
        THEN r_sb = ZeroHandle /\ r_res = NoResources
        ELSE /\ r_sb.bdev = "open" /\ r_sb.bio # 0 /\ r_sb.sb # <<>>
             /\ r_res = [bios |-> 1, pages |-> 1, opens |-> 1]

\* C9 restricted to layouts that list at least one backup sector
C9_ReleasedWithBackups ==
    (PrimaryFailedAtDefault /\ LayoutUsable /\ BackupOffsets = <<>>)
        \/ C9_ReleasedExactlyOnFailure

\* C10: success only if the superblock's block size, in bytes, is at least the
\* device block size, in bytes; a smaller one is rejected with the reason
\* "Superblock block size smaller than device block size".
C10_BlockSizeAtLeastDevice ==
    /\ (ReadDone /\ r_err = NULL /\ r_sb.sb # <<>>) =>
            r_sb.sb[1].block_size * 512 >= r_lbs
    /\ ( /\ ReadDone
         /\ r_tried # <<>>
         /\ r_tried[Len(r_tried)].err = NULL
         /\ r_disk[r_tried[Len(r_tried)].offset].block_size * 512 < r_lbs ) =>
            r_err = "Superblock block size smaller than device block size"

-----------------------------------------------------------------------------
(* Write path *)

NDev == 2
Devs == 0..(NDev - 1)

\* bound on the superblock writes of one call that complete with an error
MaxWriteErr == 2

\* for_each_online_member: the first online device with index >= i, NDev if none
RECURSIVE next_online(_, _)
next_online(devs, i) ==
    IF i >= NDev THEN NDev
    ELSE IF devs[i].online THEN i
    ELSE next_online(devs, i + 1)

roundup(x, y) == ((x + y - 1) \div y) * y

\* bch2_mi_to_cpu
bch2_mi_to_cpu(m) ==
    [nbuckets |-> m.nbuckets, first_bucket |-> m.first_bucket,
     bucket_size |-> m.bucket_size, valid |-> m.uuid # 0]

\* bch2_sb_update: the summary c->sb
sb_update_summary(src) ==
    [uuid |-> src.uuid, user_uuid |-> src.user_uuid, block_size |-> src.block_size,
     btree_node_size |-> src.flags.btree_node_size, nr_devices |-> src.nr_devices,
     time_precision |-> src.time_precision]

\* bch2_sb_update: ca->mi of every member device
sb_update_members(devs, src) ==
    [d \in Devs |->
        [devs[d] EXCEPT !.mi =
            bch2_mi_to_cpu(member_at(src.fields[bch2_sb_field_get(src, BCH_SB_FIELD_members)], d))]]

\* a mutation of write_one_super_image: the offset is that of the first slot
write_one_super_image_first_slot(sb, idx, csum_type) ==
    LET s1 == [sb EXCEPT !.offset = sb.layout.sb_offset[1],
                         !.flags.csum_type = csum_type]
    IN  [s1 EXCEPT !.csum = csum_vstruct(csum_type, s1)]

\* the image write_one_super puts in the buffer of a device for slot idx
write_one_super_image(sb, idx, csum_type) ==
    LET s1 == [sb EXCEPT !.offset = sb.layout.sb_offset[idx + 1],
                         !.flags.csum_type = csum_type]
    IN  [s1 EXCEPT !.csum = csum_vstruct(csum_type, s1)]

\* a mutation of write_super_endio_fatal: the error is charged to every device
write_super_endio_fatal_all(devs, d, error) ==
    [e \in Devs |-> [devs[e] EXCEPT !.fatal = @ \/ error]]

\* write_super_endio: bch2_dev_fatal_io_err_on(bio->bi_error, ca, ...)
write_super_endio_fatal(devs, d, error) ==
    [devs EXCEPT ![d].fatal = @ \/ error]

\* a mutation of closure_sync_done: closure_sync returns at once
closure_sync_no_wait(remaining) == TRUE

\* closure_sync(cl) returns once every bio submitted on the closure has put it
closure_sync_done(remaining) == remaining = 0

\* a mutation of validate_aborts: an invalid image does not stop the call
validate_never_aborts(err) == FALSE

\* the test of the validation loop of bch2_write_super: goto out on an error
validate_aborts(err) == err # NULL

from_fs_mark(rest, uaf) == [rest EXCEPT !.uaf = @ \cup uaf]

RECURSIVE from_fs_all(_, _, _, _, _)

\* r is what bch2_sb_from_fs did on device i: go on with the next device
from_fs_next(src, devs, a, i, r) ==
    from_fs_mark(from_fs_all(src, [devs EXCEPT ![i].disk_sb = r.sb], r.res, a, i + 1),
                 IF r.uaf THEN {i} ELSE {})


\* for_each_online_member(ca, c, i) bch2_sb_from_fs(c, ca), from device i on;
\* a[d] is the outcome of the allocation made for device d. The return value
\* of bch2_sb_from_fs is not looked at.
from_fs_all(src, devs, res, a, i) ==
    IF i >= NDev THEN [ca |-> devs, res |-> res, uaf |-> {}]
    ELSE IF ~devs[i].online THEN from_fs_all(src, devs, res, a, i + 1)
    ELSE from_fs_next(src, devs, a, i,
                      bch2_sb_from_fs(src, devs[i].disk_sb, res, a[i]))

\* err = bch2_sb_validate(...); if (err) goto out; else the next device
validate_or(err, rest) == IF validate_aborts(err) THEN err ELSE rest

RECURSIVE validate_all(_, _)
\* the validation loop of bch2_write_super from device i on: the first error
validate_all(devs, i) ==
    IF i >= NDev THEN NULL
    ELSE IF ~devs[i].online THEN validate_all(devs, i + 1)
    ELSE validate_or(bch2_sb_validate(devs[i].disk_sb.sb[1], devs[i].capacity),
                     validate_all(devs, i + 1))

wfixed == <<c_seq0, c_opts, c_error>>

\* closure_init_stack, seq++, the bch2_sb_from_fs loop. Where bch2_sb_from_fs
\* wrote through the pointer it took before the buffer moved, the behaviour is
\* undefined: the call goes on with the device image as it was, or the process
\* dies.
WritePropagate ==
    /\ w_pc = "start"
    /\ \E a \in [Devs -> AllocOutcomes], ub \in {"stale", "crash"} :
         LET src == [c_disk_sb EXCEPT !.seq = @ + 1]
             r   == from_fs_all(src, ca, w_res, a, 0)
         IN  /\ c_disk_sb' = src
             /\ ca' = r.ca
             /\ w_res' = r.res
             /\ w_uaf' = r.uaf
             /\ w_pc' = IF r.uaf # {} /\ ub = "crash" THEN "crashed" ELSE "validate"
    /\ w_cl' = 0
    /\ UNCHANGED <<c_inconsistent, c_sb, w_i, w_super_idx, w_wrote, w_inflight,
                   w_media, w_log, wfixed, rvars, pvars, xvars, bvars>>

\* a mutation of write_super_skips: BCH_FS_ERROR is not tested
write_super_skips_nochanges_only(opts, error) == opts.nochanges

\* c->opts.nochanges || test_bit(BCH_FS_ERROR, &c->flags)
write_super_skips(opts, error) == opts.nochanges \/ error

\* the bch2_sb_validate loop and the test of nochanges and BCH_FS_ERROR
WriteValidate ==
    /\ w_pc = "validate"
    /\ IF validate_all(ca, 0) # NULL
       THEN /\ c_inconsistent' = TRUE
            /\ w_pc' = "out"
            /\ UNCHANGED w_i
       ELSE IF write_super_skips(c_opts, c_error)
       THEN /\ w_pc' = "out"
            /\ UNCHANGED <<c_inconsistent, w_i>>
       ELSE /\ w_pc' = "wave"
            /\ w_i' = next_online(ca, 0)
            /\ UNCHANGED c_inconsistent
    /\ w_wrote' = FALSE
    /\ UNCHANGED <<c_disk_sb, c_sb, ca, w_res, w_super_idx, w_inflight, w_cl,
                   w_media, w_log, w_uaf, wfixed, rvars, pvars, xvars, bvars>>

\* one iteration of for_each_online_member in the wave: write_one_super(c, ca,
\* super_idx)
WriteOneSuper ==
    /\ w_pc = "wave"
    /\ w_i < NDev
    /\ LET sb  == ca[w_i].disk_sb.sb[1]
           img == write_one_super_image(sb, w_super_idx, c_opts.metadata_checksum)
       IN  IF w_super_idx >= sb.layout.nr_superblocks \/ ~ca[w_i].online
           THEN UNCHANGED <<ca, w_wrote, w_inflight, w_cl, w_log>>
           ELSE /\ ca' = [ca EXCEPT ![w_i].disk_sb.sb = <<img>>,
                                    ![w_i].io_ref = @ + 1]
                /\ w_inflight' = w_inflight \cup
                      {[dev |-> w_i, idx |-> w_super_idx, sector |-> img.offset,
                        size |-> roundup(vstruct_bytes(img),
                                         bdev_logical_block_size(ca[w_i].lbs)),
                        img |-> img]}
                /\ w_cl' = w_cl + 1
                /\ w_wrote' = TRUE
                /\ w_log' = Append(w_log, [ev |-> "submit", dev |-> w_i,
                                           idx |-> w_super_idx, error |-> FALSE])
    /\ w_i' = next_online(ca, w_i + 1)
    /\ UNCHANGED <<w_pc, c_disk_sb, c_inconsistent, c_sb, w_res, w_super_idx,
                   w_media, w_uaf, wfixed, rvars, pvars, xvars, bvars>>

NrWriteErrors ==
    Cardinality({k \in 1..Len(w_log) : w_log[k].ev = "done" /\ w_log[k].error})

\* completion of one bio: the aio completion thread sets the status when the
\* result is not bi_size, then write_super_endio runs
WriteSuperEndio ==
    \E b \in w_inflight, error \in BOOLEAN :
        /\ error => NrWriteErrors < MaxWriteErr
        /\ w_media' = IF error THEN w_media
                      ELSE [w_media EXCEPT ![b.dev][b.sector] = b.img]
        /\ ca' = [write_super_endio_fatal(ca, b.dev, error)
                     EXCEPT ![b.dev].io_ref = @ - 1]
        /\ w_cl' = w_cl - 1
        /\ w_inflight' = w_inflight \ {b}
        /\ w_log' = Append(w_log, [ev |-> "done", dev |-> b.dev, idx |-> b.idx,
                                   error |-> error])
        /\ UNCHANGED <<w_pc, c_disk_sb, c_inconsistent, c_sb, w_res, w_i,
                       w_super_idx, w_wrote, w_uaf, wfixed, rvars, pvars, xvars, bvars>>

\* closure_sync(cl); super_idx++; while (wrote)
WriteSync ==
    /\ w_pc = "wave"
    /\ w_i >= NDev
    /\ closure_sync_done(w_cl)
    /\ w_super_idx' = w_super_idx + 1
    /\ w_wrote' = FALSE
    /\ IF w_wrote
       THEN w_pc' = "wave" /\ w_i' = next_online(ca, 0)
       ELSE w_pc' = "out" /\ UNCHANGED w_i
    /\ UNCHANGED <<c_disk_sb, c_inconsistent, c_sb, ca, w_res, w_inflight, w_cl,
                   w_media, w_log, w_uaf, wfixed, rvars, pvars, xvars, bvars>>

\* out: bch2_sb_update(c)
WriteOut ==
    /\ w_pc = "out"
    /\ c_sb' = <<sb_update_summary(c_disk_sb)>>
    /\ ca' = sb_update_members(ca, c_disk_sb)
    /\ w_pc' = "done"
    /\ UNCHANGED <<c_disk_sb, c_inconsistent, w_res, w_i, w_super_idx, w_wrote,
                   w_inflight, w_cl, w_media, w_log, w_uaf, wfixed, rvars, pvars, xvars, bvars>>

bch2_write_super ==
    \/ WritePropagate
    \/ WriteValidate
    \/ WriteOneSuper
    \/ WriteSuperEndio
    \/ WriteSync
    \/ WriteOut

-----------------------------------------------------------------------------
(* Filesystems the write path is run on *)

\* the read path at rest
ReadIdle ==
    /\ r_pc = "idle"
    /\ r_opts = [sb_defined |-> FALSE, sb |-> 0, noexcl |-> FALSE, nochanges |-> FALSE]
    /\ r_sb = ZeroHandle
    /\ r_err = NULL
    /\ r_res = [bios |-> 0, pages |-> 0, opens |-> 0]
    /\ r_reads = <<>>
    /\ r_tried = <<>>
    /\ r_i = 0
    /\ r_layout = ZeroLayout
    /\ r_opened = FALSE
    /\ r_disk = <<>>
    /\ r_disk_layout = ZeroLayout
    /\ r_ioerr = {}
    /\ r_lbs = 512

WMember(nbuckets, bucket_size) ==
    [uuid |-> 1, nbuckets |-> nbuckets, first_bucket |-> 1, bucket_size |-> bucket_size]

WMembersField(m1) ==
    [type |-> BCH_SB_FIELD_members, u64s |-> 1 + MEMBER_U64S * NDev,
     data |-> [d \in 1..NDev |-> IF d = 2 THEN m1 ELSE WMember(2048, 8)]]

\* a replicas field of u64s words whose entries are the given bytes
WReplicasField(u64s, bytes) ==
    [type |-> BCH_SB_FIELD_replicas, u64s |-> u64s, data |-> bytes]

WJournalField == [type |-> BCH_SB_FIELD_journal, u64s |-> 3, data |-> <<2, 3>>]

\* an image with the given fields
WImage(dev_idx, seq, flags, slots, fields) ==
    [magic |-> BCACHE_MAGIC, version |-> BCACHE_SB_VERSION_CDEV_V4,
     seq |-> seq, uuid |-> 1, user_uuid |-> 1, block_size |-> 8,
     nr_devices |-> NDev, dev_idx |-> dev_idx, time_precision |-> 1,
     flags |-> flags, offset |-> BCH_SB_SECTOR, csum |-> 0,
     u64s |-> field_u64s([fields |-> fields], BCH_SB_FIELD_members)
              + field_u64s([fields |-> fields], BCH_SB_FIELD_replicas)
              + field_u64s([fields |-> fields], BCH_SB_FIELD_journal),
     layout |-> MkLayout(ReadBits, slots), fields |-> fields]

WSeq == 5
WCapacity == 20000

\* the image a member device holds before the call
DevImage(d, slots) ==
    WImage(d, WSeq, GoodFlags, slots,
           <<WMembersField(WMember(2048, 8)), WReplicasField(2, <<1, 1, 0>>),
             WJournalField>>)

\* authoritative images: unchanged content; a second replicas entry in a field
\* grown by one word; a replicas field that needs a second page; one that
\* exceeds the maximum size of the devices; invalid replica count; a member
\* entry for device 1 that does not fit that device
FsImages ==
    { WImage(0, WSeq, GoodFlags, <<8, 24>>,
             <<WMembersField(WMember(2048, 8)), WReplicasField(2, <<1, 1, 0>>)>>),
      WImage(0, WSeq, GoodFlags, <<8, 24>>,
             <<WMembersField(WMember(2048, 8)),
               WReplicasField(3, <<1, 1, 0, 2, 2, 0, 1>>)>>),
      WImage(0, WSeq, GoodFlags, <<8, 24>>,
             <<WMembersField(WMember(2048, 8)),
               WReplicasField(480, <<1, 1, 0, 2, 2, 0, 1>>)>>),
      WImage(0, WSeq, GoodFlags, <<8, 24>>,
             <<WMembersField(WMember(2048, 8)),
               WReplicasField(1000, <<1, 1, 0, 2, 2, 0, 1>>)>>),
      WImage(0, WSeq, [GoodFlags EXCEPT !.meta_want = 0], <<8, 24>>,
             <<WMembersField(WMember(2048, 8)), WReplicasField(2, <<1, 1, 0>>)>>),
      WImage(0, WSeq, GoodFlags, <<8, 24>>,
             <<WMembersField(WMember(4096, 8)), WReplicasField(2, <<1, 1, 0>>)>>) }

WHandle(img, order) ==
    [bdev |-> "open", mode |-> {"FMODE_READ", "FMODE_WRITE", "FMODE_EXCL"},
     bio |-> Pow2(order), sb |-> <<img>>, page_order |-> order]

WDev(d, slots, online, order, lbs) ==
    [online |-> online, disk_sb |-> WHandle(DevImage(d, slots), order),
     io_ref |-> 0, fatal |-> FALSE,
     mi |-> bch2_mi_to_cpu(WMember(2048, 8)), capacity |-> WCapacity, lbs |-> lbs]

\* what a device holds at its superblock sectors before the call
WMedia(img) ==
    [s \in {8, 24} |->
        IF \E k \in 1..img.layout.nr_superblocks : img.layout.sb_offset[k] = s
        THEN Sealed([img EXCEPT !.offset = s])
        ELSE NoImage]

WriteInit ==
    /\ ReadIdle
    /\ BioIdle
    /\ ReplIdle
    /\ CallIdle
    /\ w_pc = "start"
    /\ c_disk_sb \in FsImages
    /\ c_seq0 = c_disk_sb.seq
    /\ c_opts \in [nochanges : BOOLEAN, metadata_checksum : {1}]
    /\ c_error \in BOOLEAN
    /\ c_inconsistent = FALSE
    /\ c_sb = <<>>
    /\ \E on \in [Devs -> BOOLEAN], order \in {0, 1},
          slots1 \in {<<8>>, <<8, 24>>} :
         ca = [d \in Devs |->
                 WDev(d, IF d = 1 THEN slots1 ELSE <<8, 24>>, on[d], order,
                      IF d = 1 THEN 512 ELSE 4096)]
    /\ w_res = [bios |-> NDev, pages |-> NDev, opens |-> NDev]
    /\ w_i = 0
    /\ w_super_idx = 0
    /\ w_wrote = FALSE
    /\ w_inflight = {}
    /\ w_cl = 0
    /\ w_media = [d \in Devs |-> WMedia(ca[d].disk_sb.sb[1])]
    /\ w_log = <<>>
    /\ w_uaf = {}

SpecWrite == WriteInit /\ [][bch2_write_super]_vars

\* bch2_write_super may or may not be called; once it has propagated the
\* superblock the calling thread keeps running, and every bio submitted
\* completes
SpecWriteLive ==
    /\ WriteInit
    /\ [][bch2_write_super]_vars
    /\ WF_vars(WriteValidate \/ WriteOneSuper \/ WriteSync \/ WriteOut)
    /\ WF_vars(WriteSuperEndio)

-----------------------------------------------------------------------------
(* Properties of the write path *)

WriteDone == w_pc = "done"

Submitted(d, k) ==
    \E p \in 1..Len(w_log) :
        w_log[p].ev = "submit" /\ w_log[p].dev = d /\ w_log[p].idx = k

Completed(d, k, error) ==
    \E p \in 1..Len(w_log) :
        /\ w_log[p].ev = "done" /\ w_log[p].dev = d /\ w_log[p].idx = k
        /\ w_log[p].error = error

\* the image of an online device fails bch2_sb_validate
InvalidImage(d) ==
    /\ ca[d].online
    /\ bch2_sb_validate(ca[d].disk_sb.sb[1], ca[d].capacity) # NULL

\* C3: once propagation is over, if the image of some online device fails
\* bch2_sb_validate the filesystem is marked inconsistent and the call has
\* submitted no superblock write to any device and changed no device.
C3_InvalidImageStopsWrite ==
    (w_pc \in {"wave", "out", "done"} /\ \E d \in Devs : InvalidImage(d)) =>
        /\ c_inconsistent
        /\ w_log = <<>>
        /\ w_inflight = {}
        /\ \A d \in Devs : w_media[d] = WMedia(DevImage(d, ca[d].disk_sb.sb[1].layout.sb_offset))

C3_Witness ==
    /\ WriteDone
    /\ ~c_opts.nochanges /\ ~c_error
    /\ ca[0].online /\ ~InvalidImage(0)
    /\ InvalidImage(1)
    /\ c_inconsistent
    /\ w_log = <<>>

\* between the submission of a write and any later submission for a higher
\* slot index, the first write has completed
WavesOrdered ==
    \A q \in 1..Len(w_log) : \A p \in 1..(q - 1) :
        ( /\ w_log[q].ev = "submit" /\ w_log[p].ev = "submit"
          /\ w_log[p].idx < w_log[q].idx ) =>
            \E r \in (p + 1)..(q - 1) :
                /\ w_log[r].ev = "done"
                /\ w_log[r].dev = w_log[p].dev
                /\ w_log[r].idx = w_log[p].idx

OneInFlightPerBio ==
    \A d \in Devs : Cardinality({b \in w_inflight : b.dev = d}) <= 1

\* C4: no write for a slot index is submitted before every write submitted for
\* a lower slot index has completed, and no device ever has two superblock
\* writes in flight.
C4_SynchronizedWaves ==
    /\ WavesOrdered
    /\ OneInFlightPerBio
    /\ \A b \in w_inflight : b.idx = w_super_idx

C4_Witness ==
    /\ w_super_idx = 1
    /\ Cardinality(w_inflight) = NDev
    /\ Completed(0, 0, FALSE)
    /\ Completed(1, 0, FALSE)

\* the call reached the waves: validation passed, nochanges and the error
\* bit are clear
WroteWaves == ~c_inconsistent /\ ~c_opts.nochanges /\ ~c_error

\* C5: a device is marked with a fatal I/O error exactly when one of its own
\* superblock writes completed with an error; every write submitted has
\* completed when the call is over, and the call has submitted a write for
\* every slot of every online device whatever errors occurred.
C5_ErrorIsPerDevice ==
    /\ \A d \in Devs :
          ca[d].fatal <=> \E k \in 0..(BCH_SB_LAYOUT_NR - 1) : Completed(d, k, TRUE)
    /\ WriteDone =>
          /\ w_inflight = {}
          /\ \A p \in 1..Len(w_log) :
                w_log[p].ev = "submit" =>
                    \E r \in (p + 1)..Len(w_log) :
                        /\ w_log[r].ev = "done"
                        /\ w_log[r].dev = w_log[p].dev
                        /\ w_log[r].idx = w_log[p].idx
    /\ (WriteDone /\ WroteWaves) =>
          \A d \in Devs : ca[d].online =>
              \A k \in 0..(ca[d].disk_sb.sb[1].layout.nr_superblocks - 1) :
                  Submitted(d, k)

\* the first write of device 0 failed while that of device 1 was in flight;
\* the write of device 1 then completed and both devices got their second write
C5_Witness ==
    /\ WriteDone
    /\ Len(w_log) >= 4
    /\ w_log[3] = [ev |-> "done", dev |-> 0, idx |-> 0, error |-> TRUE]
    /\ w_log[4] = [ev |-> "done", dev |-> 1, idx |-> 0, error |-> FALSE]
    /\ Submitted(0, 1) /\ Submitted(1, 1)
    /\ ca[0].fatal /\ ~ca[1].fatal

\* the content __copy_super carries from the authoritative image to a device
\* image: the header words it assigns (the checksum type is set by
\* write_one_super) and every field but the journal
Authoritative(img) ==
    [version |-> img.version, seq |-> img.seq, uuid |-> img.uuid,
     user_uuid |-> img.user_uuid, block_size |-> img.block_size,
     nr_devices |-> img.nr_devices, time_precision |-> img.time_precision,
     flags |-> [img.flags EXCEPT !.csum_type = 0],
     fields |-> {img.fields[k] : k \in {j \in 1..Len(img.fields) :
                                          img.fields[j].type # BCH_SB_FIELD_journal}}]

\* read_one_super on device d at the sector of slot k, into a fresh handle
ReadBack(d, k) ==
    read_one_super(w_media[d], {},
                   [ZeroHandle EXCEPT !.bdev = "open", !.bio = 1, !.sb = <<NoImage>>],
                   [bios |-> 1, pages |-> 1, opens |-> 1],
                   ca[d].disk_sb.sb[1].layout.sb_offset[k + 1], "ok")

RoundTrip(d, k) ==
    /\ ReadBack(d, k).err = NULL
    /\ Authoritative(ReadBack(d, k).sb.sb[1]) = Authoritative(c_disk_sb)
    /\ ReadBack(d, k).sb.sb[1].seq > c_seq0

\* C6: every image the call wrote to a device reads back without error, with
\* the content of the authoritative image and a seq greater than the one the
\* call started from.
C6_WriteReadRoundTrip ==
    WriteDone =>
        \A d \in Devs : \A k \in 0..(BCH_SB_LAYOUT_NR - 1) :
            Completed(d, k, FALSE) => RoundTrip(d, k)

\* C6 for the devices whose buffer already had room for the authoritative image
C6_RoundTripInPlace ==
    WriteDone =>
        \A d \in Devs : \A k \in 0..(BCH_SB_LAYOUT_NR - 1) :
            ( /\ Completed(d, k, FALSE)
              /\ ca[d].disk_sb.sb[1].seq = c_disk_sb.seq ) => RoundTrip(d, k)

-----------------------------------------------------------------------------
(* Replica index: operations *)

\* the devices of the dirty (not cached) pointers of an extent, in pointer order
extent_dirty_devs(e) ==
    LET dirty == SelectSeq(e, LAMBDA ptr : ~ptr.cached)
    IN  [k \in 1..Len(dirty) |-> dirty[k].dev]

\* bch2_extent_nr_dirty_ptrs(e)
bch2_extent_nr_dirty_ptrs(e) == Len(extent_dirty_devs(e))

\* the index entry of an extent
extent_to_replicas(e, data_type) ==
    [data_type |-> data_type, devs |-> SeqToSet(extent_dirty_devs(e))]

\* replicas_has_extent(r, e, data_type): the index holds the entry of the extent
replicas_has_extent(r, e, data_type) ==
    \E k \in 1..Len(r.entries) : r.entries[k] = extent_to_replicas(e, data_type)

\* a mutation of slowpath_recheck: the caller never finds the entry recorded
slowpath_no_recheck(r, e, data_type) == FALSE

\* the re-check of bch2_check_mark_super_slowpath under sb_lock:
\* bch2_sb_has_replicas(c, e, data_type) on c->replicas
slowpath_recheck(r, e, data_type) == replicas_has_extent(r, e, data_type)

\* a mutation of bch2_update_gc_replicas: the entries of gc_r are not copied
bch2_update_gc_replicas_only_new(gc_r, e, data_type) ==
    LET entry_size == Max(1 + DivRoundUp(SeqMax(extent_dirty_devs(e)) + 1, 8),
                          gc_r.entry_size)
    IN  [entry_size |-> entry_size,
         entries |-> <<extent_to_replicas(e, data_type)>>]

\* a mutation of bch2_update_gc_replicas: the new entry is appended and the
\* array is not sorted
bch2_update_gc_replicas_unsorted(gc_r, e, data_type) ==
    LET entry_size == Max(1 + DivRoundUp(SeqMax(extent_dirty_devs(e)) + 1, 8),
                          gc_r.entry_size)
    IN  [entry_size |-> entry_size,
         entries |-> Append(gc_r.entries, extent_to_replicas(e, data_type))]

\* bch2_update_gc_replicas: the index that replaces gc_r
bch2_update_gc_replicas(gc_r, e, data_type) ==
    LET entry_size == Max(1 + DivRoundUp(SeqMax(extent_dirty_devs(e)) + 1, 8),
                          gc_r.entry_size)
    IN  [entry_size |-> entry_size,
         entries |-> sort_entries(Append(gc_r.entries, extent_to_replicas(e, data_type)),
                                  entry_size)]

RECURSIVE BitAnd(_, _)
\* a & b
BitAnd(a, b) ==
    IF a = 0 \/ b = 0 THEN 0
    ELSE (a % 2) * (b % 2) + 2 * BitAnd(a \div 2, b \div 2)

\* bch2_replicas_gc_start: the gc index built from c->replicas
gc_start_index(src, typemask) ==
    [entry_size |-> src.entry_size,
     entries |-> sort_entries(SelectSeq(src.entries,
                                        LAMBDA en : BitAnd(en.data_type, typemask) = 0),
                              src.entry_size)]

RECURSIVE set_ascending(_)
set_ascending(S) ==
    IF S = {} THEN <<>>
    ELSE LET m == CHOOSE x \in S : \A y \in S : x <= y
         IN  <<m>> \o set_ascending(S \ {m})

\* the devices of an index entry below dev_slots, ascending
entry_devs(en, dev_slots) == set_ascending({j \in en.devs : j < dev_slots})

RECURSIVE gc_end_bytes(_, _)
\* bch2_replicas_gc_end: the entries of r from the k-th on, as bytes of the field
gc_end_bytes(r, k) ==
    IF k > Len(r.entries) THEN <<>>
    ELSE LET devs == entry_devs(r.entries[k], replicas_dev_slots(r))
         IN  <<r.entries[k].data_type, Len(devs)>> \o devs \o gc_end_bytes(r, k + 1)

\* bch2_replicas_gc_end: bytes, the size it asks for (hweight8 of every bitmap byte)
gc_end_size(r) ==
    LET sum[k \in 0..Len(r.entries)] ==
            IF k = 0 THEN 0 ELSE sum[k - 1] + 2 + Cardinality(r.entries[k].devs)
    IN  8 + sum[Len(r.entries)]

\* bytes written at byte position at of a field's payload
write_bytes(data, at, new) ==
    [k \in 1..Max(Len(data), at + Len(new)) |->
        IF k > at /\ k <= at + Len(new) THEN new[k - at]
        ELSE IF k <= Len(data) THEN data[k] ELSE 0]

-----------------------------------------------------------------------------
(* Index arrays and RCU *)

MaxObjs == 4
Addrs == 1..MaxObjs

FreeObj == [status |-> "free", r |-> [entry_size |-> 0, entries |-> <<>>], wait |-> {}]

\* kzalloc: the lowest address not in use, 0 when the model has none left
alloc_addr(heap) ==
    IF \A o \in Addrs : heap[o].status # "free" THEN 0
    ELSE CHOOSE o \in Addrs :
            /\ heap[o].status = "free"
            /\ \A q \in Addrs : heap[q].status = "free" => o <= q

\* kfree(o)
kfree(heap, o) == [heap EXCEPT ![o] = FreeObj]

\* kfree_rcu(o, rcu): o is freed once every reader that is inside a read-side
\* section now has left it
kfree_rcu(heap, o, readers) ==
    [heap EXCEPT ![o].status = "retired", ![o].wait = readers]

\* a mutation of retire_index: the replaced array is freed at once
retire_index_kfree(heap, old, readers) ==
    IF old = 0 THEN heap ELSE kfree(heap, old)

\* if (old_r) kfree_rcu(old_r, rcu)
retire_index(heap, old, readers) ==
    IF old = 0 THEN heap ELSE kfree_rcu(heap, old, readers)

\* readers inside a read-side section
InSection(rd) == {t \in DOMAIN rd : rd[t].pc # "idle"}

-----------------------------------------------------------------------------
(* Authoritative image: growth and synchronous write *)

\* bch2_fs_sb_realloc(c, u64s); ok is the outcome of __get_free_pages
bch2_fs_sb_realloc(order, u64s, ok) ==
    IF get_order(sb_bytes(u64s)) <= order THEN [ret |-> 0, order |-> order]
    ELSE IF ~ok THEN [ret |-> -ENOMEM, order |-> order]
    ELSE [ret |-> 0, order |-> get_order(sb_bytes(u64s))]

RECURSIVE devs_sb_realloc(_, _, _, _, _)

\* a mutation of devs_sb_realloc_next: the loop goes on after a failure
devs_sb_realloc_next_ignore(devs, d, a, i, ra) ==
    devs_sb_realloc([devs EXCEPT ![i].disk_sb = ra.sb], ra.res, d, a, i + 1)

\* ra is what bch2_sb_realloc returned for device i
devs_sb_realloc_next(devs, d, a, i, ra) ==
    IF ra.ret # 0
    THEN [ret |-> ra.ret, ca |-> [devs EXCEPT ![i].disk_sb = ra.sb], res |-> ra.res]
    ELSE devs_sb_realloc([devs EXCEPT ![i].disk_sb = ra.sb], ra.res, d, a, i + 1)

\* the for_each_online_member loop of bch2_fs_sb_field_resize from device i on
devs_sb_realloc(devs, res, d, a, i) ==
    IF i >= NDev THEN [ret |-> 0, ca |-> devs, res |-> res]
    ELSE IF ~devs[i].online THEN devs_sb_realloc(devs, res, d, a, i + 1)
    ELSE devs_sb_realloc_next(devs, d, a, i,
             bch2_sb_realloc(devs[i].disk_sb, res,
                             devs[i].disk_sb.sb[1].u64s + d, a[i]))

\* outcomes of the page allocation of bch2_fs_sb_realloc: it is made only when
\* the image outgrows its pages
FsAllocs(sb, order, type, u64s) ==
    IF get_order(sb_bytes(sb.u64s + u64s - field_u64s(sb, type))) > order
    THEN BOOLEAN ELSE {TRUE}

\* outcomes of the allocations of bch2_sb_realloc on the online devices: one
\* is made only for a device whose image outgrows its pages
DevAllocs(sb, devs, type, u64s) ==
    {a \in [Devs -> {"ok", "nopages"}] :
        \A d \in Devs :
            a[d] = "nopages" =>
                /\ devs[d].online
                /\ get_order(sb_bytes(devs[d].disk_sb.sb[1].u64s + u64s
                                      - field_u64s(sb, type))) > devs[d].disk_sb.page_order}

\* bch2_fs_sb_field_resize once bch2_fs_sb_realloc returned fr and the loop
\* over the online devices dr. f was looked up before bch2_fs_sb_realloc: when
\* the field exists and c->disk_sb was replaced (fr.order > order), f points
\* into the freed pages and only the u64s of the new image is updated (uaf)
fs_field_resized(sb, order, devs, res, type, u64s, fr, dr) ==
    IF fr.ret # 0
    THEN [f |-> 0, sb |-> sb, order |-> order, ca |-> devs, res |-> res,
          uaf |-> FALSE]
    ELSE IF dr.ret # 0
    THEN [f |-> 0, sb |-> sb, order |-> fr.order, ca |-> dr.ca, res |-> dr.res,
          uaf |-> FALSE]
    ELSE IF fr.order > order /\ bch2_sb_field_get(sb, type) # 0
    THEN [f |-> bch2_sb_field_get(sb, type),
          sb |-> [sb EXCEPT !.u64s = @ + u64s - field_u64s(sb, type)],
          order |-> fr.order, ca |-> dr.ca, res |-> dr.res, uaf |-> TRUE]
    ELSE [f |-> resized_index(sb, bch2_sb_field_get(sb, type)), uaf |-> FALSE,
          sb |-> field_set_type(
                     __bch2_sb_field_resize(sb, bch2_sb_field_get(sb, type), u64s),
                     resized_index(sb, bch2_sb_field_get(sb, type)), type),
          order |-> fr.order, ca |-> dr.ca, res |-> dr.res]

\* the image after the caller wrote img through the pointer that
\* bch2_fs_sb_field_resize returned: nothing of it reaches the image when the
\* pointer is dangling
via(fr, img) == IF fr.uaf THEN fr.sb ELSE img

\* bch2_fs_sb_field_resize(c, type, u64s): f is the position of the field in
\* the image returned, 0 when the call returns NULL
bch2_fs_sb_field_resize(sb, order, devs, res, type, u64s, ok, a) ==
    fs_field_resized(sb, order, devs, res, type, u64s,
        bch2_fs_sb_realloc(order, sb.u64s + u64s - field_u64s(sb, type), ok),
        devs_sb_realloc(devs, res, u64s - field_u64s(sb, type), a, 0))

\* the image left in the buffer of a device, and on its sectors, by the waves
\* of bch2_write_super when every write succeeds
written_image(sb, csum_type) ==
    write_one_super_image(sb, sb.layout.nr_superblocks - 1, csum_type)

written_media(media, sb, csum_type) ==
    [s \in DOMAIN media |->
        IF \E k \in 1..sb.layout.nr_superblocks : sb.layout.sb_offset[k] = s
        THEN write_one_super_image(
                 sb, (CHOOSE k \in 1..sb.layout.nr_superblocks :
                          sb.layout.sb_offset[k] = s) - 1, csum_type)
        ELSE media[s]]

\* the end of bch2_write_super once the images are propagated (r) and
\* validated (bad): the waves, every write succeeding, and bch2_sb_update
write_super_waves(src1, r, bad, media, opts, error) ==
    [disk_sb |-> src1,
     ca |-> sb_update_members(
               [d \in Devs |->
                   IF bad \/ opts.nochanges \/ error \/ ~r.ca[d].online THEN r.ca[d]
                   ELSE [r.ca[d] EXCEPT !.disk_sb.sb =
                           <<written_image(r.ca[d].disk_sb.sb[1],
                                           opts.metadata_checksum)>>]],
               src1),
     res |-> r.res,
     uaf |-> r.uaf,
     inconsistent |-> bad,
     media |-> [d \in Devs |->
                  IF bad \/ opts.nochanges \/ error \/ ~r.ca[d].online THEN media[d]
                  ELSE written_media(media[d], r.ca[d].disk_sb.sb[1],
                                     opts.metadata_checksum)],
     c_sb |-> <<sb_update_summary(src1)>>]

\* the validation loop of bch2_write_super on the propagated images
write_super_validated(src1, r, media, opts, error) ==
    write_super_waves(src1, r, validate_all(r.ca, 0) # NULL, media, opts, error)

\* bch2_write_super(c) run to its end with no allocation failure and no write
\* error: seq++, bch2_sb_from_fs, bch2_sb_validate, the waves, bch2_sb_update
write_super_sync(src, devs, res, media, opts, error) ==
    write_super_validated([src EXCEPT !.seq = @ + 1],
                          from_fs_all([src EXCEPT !.seq = @ + 1], devs, res,
                                      [d \in Devs |-> "ok"], 0),
                          media, opts, error)

-----------------------------------------------------------------------------
(* Replica index: updaters *)

NUpd == 2
Updaters == 1..NUpd
NRd == 1
Readers == (NUpd + 1)..(NUpd + NRd)
GcThread == NUpd + NRd + 1

\* bound on the calls each updater makes, and on the gc runs
MaxCalls == 1
MaxGc == 1

BCH_DATA_JOURNAL == 2
BCH_DATA_BTREE == 3
BCH_DATA_USER == 4

\* the extents the callers mark: their pointers with device and cached bit
Extents ==
    { <<[dev |-> 0, cached |-> FALSE], [dev |-> 1, cached |-> FALSE]>>,
      <<[dev |-> 1, cached |-> FALSE], [dev |-> 0, cached |-> FALSE]>>,
      <<[dev |-> 1, cached |-> FALSE], [dev |-> 0, cached |-> TRUE]>> }

DataTypes == {BCH_DATA_BTREE, BCH_DATA_USER}

wrest == <<w_pc, c_seq0, c_opts, c_error, w_i, w_super_idx, w_wrote, w_inflight,
           w_cl, w_log>>
wimg == <<c_disk_sb, c_inconsistent, c_sb, ca, w_res, w_media, w_uaf>>

\* the call of thread t to bch2_write_super left the filesystem as ws
WriteSuperDone(t, ws) ==
    /\ c_disk_sb' = ws.disk_sb
    /\ ca' = ws.ca
    /\ w_res' = ws.res
    /\ w_media' = ws.media
    /\ c_sb' = ws.c_sb
    /\ c_inconsistent' = (c_inconsistent \/ ws.inconsistent)
    /\ w_uaf' = w_uaf \cup ws.uaf
    /\ p_writes' = Append(p_writes, [by |-> t, seq |-> ws.disk_sb.seq])

\* the effect of bch2_write_super called by thread t on the image sb
CallWriteSuper(t, sb, devs, res) ==
    WriteSuperDone(t, write_super_sync(sb, devs, res, w_media, c_opts, c_error))

\* mutex_unlock(&c->sb_lock); return ret
SlowReturn(t, ret, appended) ==
    /\ sb_lock' = 0
    /\ p_thr' = [p_thr EXCEPT ![t].pc = "idle", ![t].ret = ret,
                              ![t].calls = @ + 1, ![t].appended = appended]

\* entry of bch2_check_mark_super_slowpath(c, e, data_type): mutex_lock
SlowLock(t) ==
    /\ p_thr[t].pc = "idle"
    /\ p_thr[t].calls < p_thr[t].budget
    /\ sb_lock = 0
    /\ sb_lock' = t
    /\ \E e \in Extents, data_type \in DataTypes :
         p_thr' = [p_thr EXCEPT ![t].pc = "gc", ![t].e = e,
                                ![t].data_type = data_type,
                                ![t].gc_added = FALSE]
    /\ UNCHANGED <<c_disk_sb_order, c_replicas, c_replicas_gc, p_heap, p_rd, p_gc,
                   p_writes, p_bug, wimg, wrest, rvars, xvars, bvars>>

\* the gc_r part: bch2_update_gc_replicas when gc is in progress and the gc
\* index lacks the entry
SlowGc(t) ==
    /\ p_thr[t].pc = "gc"
    /\ sb_lock = t
    /\ IF c_replicas_gc # 0
          /\ ~replicas_has_extent(p_heap[c_replicas_gc].r, p_thr[t].e, p_thr[t].data_type)
       THEN \E ok \in BOOLEAN :
              /\ ok => alloc_addr(p_heap) # 0
              /\ IF ~ok
                 THEN /\ SlowReturn(t, -ENOMEM, FALSE)
                      /\ UNCHANGED <<c_replicas_gc, p_heap>>
                 ELSE LET new == alloc_addr(p_heap) IN
                      /\ p_heap' = kfree_rcu(
                            [p_heap EXCEPT ![new] =
                                [status |-> "live",
                                 r |-> bch2_update_gc_replicas(p_heap[c_replicas_gc].r,
                                            p_thr[t].e, p_thr[t].data_type),
                                 wait |-> {}]],
                            c_replicas_gc, InSection(p_rd))
                      /\ c_replicas_gc' = new
                      /\ p_thr' = [p_thr EXCEPT ![t].pc = "mark",
                                                ![t].gc_added = TRUE]
                      /\ UNCHANGED sb_lock
       ELSE /\ p_thr' = [p_thr EXCEPT ![t].pc = "mark"]
            /\ UNCHANGED <<sb_lock, c_replicas_gc, p_heap>>
    /\ UNCHANGED <<c_disk_sb_order, c_replicas, p_rd, p_gc, p_writes, p_bug, wimg,
                   wrest, rvars, xvars, bvars>>

\* DIV_ROUND_UP(sizeof(*sb_r) + bytes + new_entry_bytes, sizeof(u64)): the size
\* bch2_check_mark_super_slowpath asks for
slowpath_u64s(sb, e) ==
    DivRoundUp(8 + bch2_sb_replicas_nr_entries(sb).bytes
                 + 2 + bch2_extent_nr_dirty_ptrs(e), 8)

\* bch2_sb_replicas_to_cpu_replicas on the image sb1, which the resize and the
\* new entry left in c->disk_sb; the caller goes on to bch2_write_super
SlowPublish(t, sb1, fr, new) ==
    /\ p_heap' = retire_index(
          [p_heap EXCEPT ![new] =
              [status |-> "live", r |-> __bch2_sb_replicas_to_cpu_replicas(sb1),
               wait |-> {}]],
          c_replicas, InSection(p_rd))
    /\ c_replicas' = new
    /\ c_disk_sb' = sb1
    /\ ca' = fr.ca
    /\ w_res' = fr.res
    /\ p_thr' = [p_thr EXCEPT ![t].pc = "write"]
    /\ UNCHANGED <<sb_lock, c_inconsistent, c_sb, w_media, w_uaf, p_writes>>

\* bch2_write_super(c) at the end of bch2_check_mark_super_slowpath, which
\* waits for the writes to all devices with sb_lock held, then err: unlock
SlowWrite(t) ==
    /\ p_thr[t].pc = "write"
    /\ sb_lock = t
    /\ CallWriteSuper(t, c_disk_sb, ca, w_res)
    /\ SlowReturn(t, 0, TRUE)
    /\ UNCHANGED <<c_disk_sb_order, c_replicas, c_replicas_gc, p_heap, p_rd, p_gc,
                   p_bug, wrest, rvars, xvars, bvars>>

\* a mutation of slowpath_undo: the new entry is left in the field
slowpath_no_undo(data, at, entry) == write_bytes(data, at, entry)

\* the new entry written at byte at, then, bch2_sb_replicas_to_cpu_replicas
\* having failed, memset(new_entry, 0, vstruct_end(&sb_r->field) - new_entry)
slowpath_undo(data, at, entry) == Trunc(write_bytes(data, at, entry), at)

\* bch2_check_mark_super_slowpath after bch2_fs_sb_resize_replicas returned fr:
\* the entry is written at byte position at of the field, the index rebuilt
\* (ok_cpu: its allocation succeeds, at address new); bch2_write_super follows
SlowAppend(t, fr, at, entry, new, ok_cpu) ==
    /\ ok_cpu => new # 0
    /\ c_disk_sb_order' = fr.order
    /\ IF fr.f = 0
       THEN /\ SlowReturn(t, -ENOSPC, FALSE)
            /\ ca' = fr.ca
            /\ w_res' = fr.res
            /\ UNCHANGED <<c_disk_sb, c_inconsistent, c_sb, w_media, w_uaf,
                           c_replicas, p_heap, p_writes>>
       ELSE IF ~ok_cpu
       THEN /\ SlowReturn(t, -ENOMEM, FALSE)
            /\ c_disk_sb' = via(fr, [fr.sb EXCEPT !.fields[fr.f].data =
                                                      slowpath_undo(@, at, entry)])
            /\ ca' = fr.ca
            /\ w_res' = fr.res
            /\ UNCHANGED <<c_inconsistent, c_sb, w_media, w_uaf,
                           c_replicas, p_heap, p_writes>>
       ELSE SlowPublish(t,
                via(fr, [fr.sb EXCEPT !.fields[fr.f].data = write_bytes(@, at, entry)]),
                fr, new)

\* the re-check and, when the entry is still missing: grow the replicas field,
\* append the entry, bch2_sb_replicas_to_cpu_replicas
SlowMark(t) ==
    /\ p_thr[t].pc = "mark"
    /\ sb_lock = t
    /\ IF slowpath_recheck(p_heap[c_replicas].r, p_thr[t].e, p_thr[t].data_type)
       THEN /\ SlowReturn(t, 0, FALSE)
            /\ UNCHANGED <<c_disk_sb_order, c_replicas, p_heap, p_writes, wimg>>
       ELSE \E ok_fs \in FsAllocs(c_disk_sb, c_disk_sb_order, BCH_SB_FIELD_replicas,
                                   slowpath_u64s(c_disk_sb, p_thr[t].e)),
               a \in DevAllocs(c_disk_sb, ca, BCH_SB_FIELD_replicas,
                               slowpath_u64s(c_disk_sb, p_thr[t].e)),
               ok_cpu \in BOOLEAN :
            SlowAppend(t,
                bch2_fs_sb_field_resize(c_disk_sb, c_disk_sb_order, ca, w_res,
                    BCH_SB_FIELD_replicas, slowpath_u64s(c_disk_sb, p_thr[t].e),
                    ok_fs, a),
                bch2_sb_replicas_nr_entries(c_disk_sb).bytes - 8,
                <<p_thr[t].data_type, bch2_extent_nr_dirty_ptrs(p_thr[t].e)>>
                    \o extent_dirty_devs(p_thr[t].e),
                alloc_addr(p_heap), ok_cpu)
    /\ UNCHANGED <<c_replicas_gc, p_rd, p_gc, p_bug, wrest, rvars, xvars, bvars>>

-----------------------------------------------------------------------------
(* Replica index: gc *)

Typemasks == {Pow2(BCH_DATA_JOURNAL)}

\* bch2_replicas_gc_start(c, typemask): mutex_lock, BUG_ON(c->replicas_gc),
\* the copy of the entries typemask spares, mutex_unlock. A BUG_ON that fires
\* stops the thread where it stands, after the mutex_lock
GcStart ==
    /\ p_gc.pc = "idle"
    /\ p_gc.runs < MaxGc \/ c_replicas_gc # 0
    /\ sb_lock = 0
    /\ ~p_bug
    /\ IF c_replicas_gc # 0
       THEN /\ p_bug' = TRUE
            /\ sb_lock' = GcThread
            /\ UNCHANGED <<c_replicas_gc, p_heap, p_gc>>
       ELSE \E typemask \in Typemasks, ok \in BOOLEAN :
              /\ ok => alloc_addr(p_heap) # 0
              /\ UNCHANGED sb_lock
              /\ IF ~ok
                 THEN UNCHANGED <<c_replicas_gc, p_heap, p_gc, p_bug>>
                 ELSE /\ p_heap' = [p_heap EXCEPT ![alloc_addr(p_heap)] =
                            [status |-> "live",
                             r |-> gc_start_index(p_heap[c_replicas].r, typemask),
                             wait |-> {}]]
                      /\ c_replicas_gc' = alloc_addr(p_heap)
                      /\ p_gc' = [p_gc EXCEPT !.pc = "running", !.runs = @ + 1,
                                                 !.typemask = typemask]
                      /\ UNCHANGED p_bug
    /\ UNCHANGED <<c_disk_sb_order, c_replicas, p_thr, p_rd, p_writes,
                   wimg, wrest, rvars, xvars, bvars>>

\* a mutation of gc_end_entries: the entries are written over the old ones
\* without the memset
gc_end_entries_no_memset(data, r) == write_bytes(data, 0, gc_end_bytes(r, 1))

\* bch2_replicas_gc_end: memset of the entries of the field, then the entries
\* of the gc index r
gc_end_entries(data, r) == gc_end_bytes(r, 1)

\* a mutation of GcEndCancel: the gc index stays installed
GcEndCancelKeepsIndex ==
    /\ p_gc' = [p_gc EXCEPT !.pc = "idle", !.err = TRUE, !.ret = 0]
    /\ UNCHANGED <<c_replicas_gc, p_heap, c_replicas, c_disk_sb_order, p_writes, wimg>>

\* bch2_replicas_gc_end with err != 0
GcEndCancel ==
    /\ p_heap' = kfree_rcu(p_heap, c_replicas_gc, InSection(p_rd))
    /\ c_replicas_gc' = 0
    /\ p_gc' = [p_gc EXCEPT !.pc = "idle", !.err = TRUE, !.ret = 0]
    /\ UNCHANGED <<c_replicas, c_disk_sb_order, p_writes, wimg>>

\* bch2_replicas_gc_end with err = 0, after bch2_fs_sb_resize_replicas returned
\* fr: the field is rewritten from the gc index r, which becomes c->replicas
GcEndInstall(r, fr) ==
    IF fr.f = 0
    THEN /\ c_disk_sb_order' = fr.order
         /\ ca' = fr.ca
         /\ w_res' = fr.res
         /\ p_gc' = [p_gc EXCEPT !.pc = "idle", !.err = FALSE, !.ret = -ENOSPC]
         /\ UNCHANGED <<c_disk_sb, c_inconsistent, c_sb, w_media, w_uaf,
                        c_replicas, c_replicas_gc, p_heap, p_writes>>
    ELSE /\ c_disk_sb_order' = fr.order
         /\ p_heap' = kfree_rcu(p_heap, c_replicas, InSection(p_rd))
         /\ c_replicas' = c_replicas_gc
         /\ c_replicas_gc' = 0
         /\ p_gc' = [p_gc EXCEPT !.pc = "idle", !.err = FALSE, !.ret = 0]
         /\ CallWriteSuper(GcThread,
                           via(fr, [fr.sb EXCEPT !.fields[fr.f].data =
                                                    gc_end_entries(@, r)]),
                           fr.ca, fr.res)

\* bch2_replicas_gc_end(c, err)
GcEnd ==
    /\ p_gc.pc = "running"
    /\ sb_lock = 0
    /\ \E err \in BOOLEAN,
          ok_fs \in FsAllocs(c_disk_sb, c_disk_sb_order, BCH_SB_FIELD_replicas,
                             DivRoundUp(8 + gc_end_size(p_heap[c_replicas_gc].r), 8)),
          a \in DevAllocs(c_disk_sb, ca, BCH_SB_FIELD_replicas,
                          DivRoundUp(8 + gc_end_size(p_heap[c_replicas_gc].r), 8)) :
         IF err
         THEN GcEndCancel
         ELSE GcEndInstall(p_heap[c_replicas_gc].r,
                  bch2_fs_sb_field_resize(c_disk_sb, c_disk_sb_order, ca, w_res,
                      BCH_SB_FIELD_replicas,
                      DivRoundUp(8 + gc_end_size(p_heap[c_replicas_gc].r), 8),
                      ok_fs, a))
    /\ UNCHANGED <<sb_lock, p_thr, p_rd, p_bug, wrest, rvars, xvars, bvars>>

-----------------------------------------------------------------------------
(* Replica index: RCU readers *)

\* UINT_MAX of the host is 2^32 - 1; the largest integer of the model stands
\* for it
UINT_MAX == 2147483647

\* a mutation of dev_counts_online: dev_to_offline is not looked at
dev_counts_online_any(devs, dev, dev_to_offline) == devs[dev].online

\* bch2_dev_is_online(c->devs[dev]) && c->devs[dev] != dev_to_offline
dev_counts_online(devs, dev, dev_to_offline) ==
    devs[dev].online /\ dev # dev_to_offline

\* the loop of __bch2_replicas_status over the entries of r, from the k-th on,
\* ret being the counts so far
RECURSIVE replicas_status_from(_, _, _, _, _, _)
replicas_status_from(r, k, ret, dev_slots, devs, dev_to_offline) ==
    IF k > Len(r.entries) THEN ret
    ELSE LET e == r.entries[k]
             on  == Cardinality({dev \in e.devs : dev < dev_slots
                                    /\ dev_counts_online(devs, dev, dev_to_offline)})
             off == Cardinality({dev \in e.devs : dev < dev_slots
                                    /\ ~dev_counts_online(devs, dev, dev_to_offline)})
         IN  replicas_status_from(r, k + 1,
                [ret EXCEPT ![e.data_type].nr_online = Min(@, on),
                            ![e.data_type].nr_offline = Max(@, off)],
                dev_slots, devs, dev_to_offline)

\* __bch2_replicas_status(c, dev_to_offline) on the index r; dev_to_offline is
\* a device index, NDev for NULL
__bch2_replicas_status(r, nr_devices, devs, dev_to_offline) ==
    replicas_status_from(r, 1,
        [t \in 0..(BCH_DATA_NR - 1) |-> [nr_online |-> UINT_MAX, nr_offline |-> 0]],
        Min(replicas_dev_slots(r), nr_devices), devs, dev_to_offline)

RECURSIVE dev_has_data_from(_, _, _)
\* the loop of bch2_dev_has_data from the k-th entry on
dev_has_data_from(r, k, dev_idx) ==
    IF k > Len(r.entries) THEN 0
    ELSE IF dev_idx \in r.entries[k].devs THEN Pow2(r.entries[k].data_type)
    ELSE dev_has_data_from(r, k + 1, dev_idx)

\* bch2_dev_has_data(c, ca) on the index r
bch2_dev_has_data(r, dev_idx) ==
    IF dev_idx >= replicas_dev_slots(r) THEN 0
    ELSE dev_has_data_from(r, 1, dev_idx)

\* bound on the read-side sections of each reader
MaxReads == 2

\* the calls the readers make: __bch2_replicas_status(c, NULL),
\* __bch2_replicas_status(c, c->devs[1]), bch2_dev_has_data(c, c->devs[1])
ReaderCalls == {<<"status", NDev>>, <<"has_data", 1>>}

IdleReader ==
    [pc |-> "idle", fn |-> "status", arg |-> 0, ptr |-> 0, ret |-> <<>>,
     uaf |-> FALSE, reads |-> 0]

\* rcu_read_lock() at the entry of __bch2_replicas_status or bch2_dev_has_data
ReaderLock(t) ==
    /\ p_rd[t].pc = "idle"
    /\ \E call \in ReaderCalls :
         LET fn == call[1] arg == call[2] IN
         /\ p_rd[t].reads < MaxReads
         /\ p_rd' = [p_rd EXCEPT ![t] = [pc |-> "locked", fn |-> fn, arg |-> arg,
                                         ptr |-> 0, ret |-> <<>>, uaf |-> FALSE,
                                         reads |-> p_rd[t].reads + 1]]
    /\ UNCHANGED <<sb_lock, c_disk_sb_order, c_replicas, c_replicas_gc, p_heap, p_thr,
                   p_gc, p_writes, p_bug, wimg, wrest, rvars, xvars, bvars>>

\* a mutation of ReaderDeref: the reader waits until sb_lock is free
ReaderDerefUnderLock(t) ==
    /\ p_rd[t].pc = "locked"
    /\ sb_lock = 0
    /\ p_rd' = [p_rd EXCEPT ![t].pc = "scan", ![t].ptr = c_replicas]
    /\ UNCHANGED <<sb_lock, c_disk_sb_order, c_replicas, c_replicas_gc, p_heap, p_thr,
                   p_gc, p_writes, p_bug, wimg, wrest, rvars, xvars, bvars>>

\* r = rcu_dereference(c->replicas)
ReaderDeref(t) ==
    /\ p_rd[t].pc = "locked"
    /\ p_rd' = [p_rd EXCEPT ![t].pc = "scan", ![t].ptr = c_replicas]
    /\ UNCHANGED <<sb_lock, c_disk_sb_order, c_replicas, c_replicas_gc, p_heap, p_thr,
                   p_gc, p_writes, p_bug, wimg, wrest, rvars, xvars, bvars>>

\* the reads of r->nr, r->entry_size and the entries; reading an array that was
\* freed yields anything (the result of the array as it was is one outcome)
ReaderScan(t) ==
    /\ p_rd[t].pc = "scan"
    /\ LET r == p_heap[p_rd[t].ptr].r IN
       p_rd' = [p_rd EXCEPT
                  ![t].pc = "scanned",
                  ![t].uaf = p_heap[p_rd[t].ptr].status = "free",
                  ![t].ret = IF p_rd[t].fn = "status"
                             THEN <<__bch2_replicas_status(r, c_sb[1].nr_devices, ca,
                                                           p_rd[t].arg)>>
                             ELSE <<bch2_dev_has_data(r, p_rd[t].arg)>>]
    /\ UNCHANGED <<sb_lock, c_disk_sb_order, c_replicas, c_replicas_gc, p_heap, p_thr,
                   p_gc, p_writes, p_bug, wimg, wrest, rvars, xvars, bvars>>

\* rcu_read_unlock(): the reader no longer holds up any grace period
ReaderUnlock(t) ==
    /\ p_rd[t].pc = "scanned"
    /\ p_rd' = [p_rd EXCEPT ![t] = [IdleReader EXCEPT !.reads = p_rd[t].reads]]
    /\ p_heap' = [o \in Addrs |-> [p_heap[o] EXCEPT !.wait = @ \ {t}]]
    /\ UNCHANGED <<sb_lock, c_disk_sb_order, c_replicas, c_replicas_gc, p_thr,
                   p_gc, p_writes, p_bug, wimg, wrest, rvars, xvars, bvars>>

\* end of a grace period: the callback of kfree_rcu frees the array
RcuReclaim(o) ==
    /\ p_heap[o].status = "retired"
    /\ p_heap[o].wait = {}
    /\ p_heap' = kfree(p_heap, o)
    /\ UNCHANGED <<sb_lock, c_disk_sb_order, c_replicas, c_replicas_gc, p_thr, p_rd,
                   p_gc, p_writes, p_bug, wimg, wrest, rvars, xvars, bvars>>

\* updaters, gc and the end of grace periods
ReplNext ==
    \/ \E t \in Updaters : SlowLock(t)
    \/ \E t \in Updaters : SlowGc(t)
    \/ \E t \in Updaters : SlowMark(t)
    \/ \E t \in Updaters : SlowWrite(t)
    \/ GcStart
    \/ GcEnd
    \/ \E o \in Addrs : RcuReclaim(o)

\* the same with readers of the index
RcuNext ==
    \/ \E t \in Updaters : SlowLock(t)
    \/ \E t \in Updaters : SlowGc(t)
    \/ \E t \in Updaters : SlowMark(t)
    \/ \E t \in Updaters : SlowWrite(t)
    \/ GcStart
    \/ GcEnd
    \/ \E t \in Readers : ReaderLock(t)
    \/ \E t \in Readers : ReaderDeref(t)
    \/ \E t \in Readers : ReaderScan(t)
    \/ \E t \in Readers : ReaderUnlock(t)
    \/ \E o \in Addrs : RcuReclaim(o)

-----------------------------------------------------------------------------
(* Filesystems the replica machine is run on *)

\* authoritative images: a replicas field with one entry and both devices
\* online; no replicas field and device 1 offline
ReplFields ==
    { <<WMembersField(WMember(2048, 8)), WReplicasField(2, <<1, 1, 0>>)>>,
      <<WMembersField(WMember(2048, 8))>> }

\* the journal fields of the devices: a short one, and with a replicas field
\* also one of 400 buckets, with which the image of a device fills its page
ReplJournals(fields) ==
    IF Len(fields) > 1
    THEN {WJournalField, [type |-> BCH_SB_FIELD_journal, u64s |-> 401, data |-> <<2, 3>>]}
    ELSE {WJournalField}

\* the filesystem and its index before any call; budget[t] is the number of
\* calls updater t makes
ReplFs(budget) ==
    /\ ReadIdle
    /\ BioIdle
    /\ CallIdle
    /\ w_pc = "idle"
    /\ \E fields \in ReplFields : \E journal \in ReplJournals(fields) :
         /\ c_disk_sb = WImage(0, WSeq, GoodFlags, <<8, 24>>, fields)
         /\ ca = [d \in Devs |->
                    [online |-> (d # 1 \/ Len(fields) > 1),
                     disk_sb |-> WHandle(WImage(d, WSeq, GoodFlags, <<8, 24>>,
                                                Append(fields, journal)), 0),
                     io_ref |-> 0, fatal |-> FALSE,
                     mi |-> bch2_mi_to_cpu(WMember(2048, 8)),
                     capacity |-> WCapacity, lbs |-> 512]]
    /\ c_seq0 = c_disk_sb.seq
    /\ c_opts = [nochanges |-> FALSE, metadata_checksum |-> 1]
    /\ c_error = FALSE
    /\ c_inconsistent = FALSE
    /\ c_sb = <<sb_update_summary(c_disk_sb)>>
    /\ w_res = [bios |-> NDev, pages |-> NDev, opens |-> NDev]
    /\ w_i = 0
    /\ w_super_idx = 0
    /\ w_wrote = FALSE
    /\ w_inflight = {}
    /\ w_cl = 0
    /\ w_media = [d \in Devs |-> WMedia(ca[d].disk_sb.sb[1])]
    /\ w_log = <<>>
    /\ w_uaf = {}
    /\ sb_lock = 0
    /\ c_disk_sb_order = get_order(vstruct_bytes(c_disk_sb))
    /\ c_replicas = 1
    /\ c_replicas_gc = 0
    /\ p_heap = [o \in Addrs |->
                   IF o = 1
                   THEN [status |-> "live",
                         r |-> __bch2_sb_replicas_to_cpu_replicas(c_disk_sb),
                         wait |-> {}]
                   ELSE FreeObj]
    /\ p_thr = [t \in Updaters |->
                  [pc |-> "idle", e |-> <<>>, data_type |-> 0, ret |-> 0,
                   calls |-> 0, budget |-> budget[t], appended |-> FALSE,
                   gc_added |-> FALSE]]
    /\ p_rd = [t \in Readers |-> IdleReader]
    /\ p_gc = IdleGc
    /\ p_writes = <<>>
    /\ p_bug = FALSE

\* every updater makes MaxCalls calls
ReplInit == ReplFs([t \in Updaters |-> MaxCalls])

SpecRepl == ReplInit /\ [][ReplNext]_vars

\* one updater makes all the calls, next to the readers
RcuInit == ReplFs([t \in Updaters |-> IF t = 1 THEN MaxCalls ELSE 0])

SpecRcu == RcuInit /\ [][RcuNext]_vars

\* a reader inside an RCU read-side section does not sleep: its steps are taken;
\* nothing is assumed about the updaters and the gc thread
SpecRcuLive ==
    /\ RcuInit
    /\ [][RcuNext]_vars
    /\ \A t \in Readers :
          WF_vars(ReaderDeref(t) \/ ReaderScan(t) \/ ReaderUnlock(t))

-----------------------------------------------------------------------------
(* bch2_sb_to_fs next to the replica machine *)

\* superblocks of devices brought to the filesystem: the same replicas field,
\* one with a second entry, and none; the device's journal field comes along
ToFsSources ==
    { WImage(1, WSeq + 1, GoodFlags, <<8, 24>>,
             <<WMembersField(WMember(2048, 8)), WReplicasField(2, <<1, 1, 0>>),
               WJournalField>>),
      WImage(1, WSeq + 1, GoodFlags, <<8, 24>>,
             <<WMembersField(WMember(2048, 8)),
               WReplicasField(3, <<1, 1, 0, 2, 2, 0, 1>>), WJournalField>>),
      WImage(1, WSeq + 1, GoodFlags, <<8, 24>>,
             <<WMembersField(WMember(2048, 8)), WJournalField>>) }

\* bch2_sb_to_fs(c, src) after bch2_fs_sb_realloc returned fr: __copy_super
\* into c->disk_sb, bch2_sb_replicas_to_cpu_replicas (ok_cpu: its allocation
\* succeeds, at address new), bch2_sb_update
SbToFsCopy(src, fr, new, ok_cpu) ==
    IF fr.ret # 0
    THEN /\ v_call' = [fn |-> "to_fs", src |-> src, ret |-> -ENOMEM, copied |-> FALSE]
         /\ UNCHANGED <<c_disk_sb, c_disk_sb_order, c_replicas, p_heap, c_sb, ca>>
    ELSE /\ c_disk_sb' = __copy_super(c_disk_sb, src)
         /\ c_disk_sb_order' = fr.order
         /\ IF ~ok_cpu
            THEN /\ v_call' = [fn |-> "to_fs", src |-> src, ret |-> -ENOMEM,
                               copied |-> TRUE]
                 /\ UNCHANGED <<c_replicas, p_heap, c_sb, ca>>
            ELSE /\ v_call' = [fn |-> "to_fs", src |-> src, ret |-> 0, copied |-> TRUE]
                 /\ p_heap' = retire_index(
                       [p_heap EXCEPT ![new] =
                           [status |-> "live",
                            r |-> __bch2_sb_replicas_to_cpu_replicas(
                                     __copy_super(c_disk_sb, src)),
                            wait |-> {}]],
                       c_replicas, InSection(p_rd))
                 /\ c_replicas' = new
                 /\ c_sb' = <<sb_update_summary(__copy_super(c_disk_sb, src))>>
                 /\ ca' = sb_update_members(ca, __copy_super(c_disk_sb, src))

\* bch2_sb_to_fs(c, src) by a thread that took sb_lock for the call and
\* releases it when the call has returned
SbToFs ==
    /\ v_call = <<>>
    /\ sb_lock = 0
    /\ \E src \in ToFsSources, ok_fs \in BOOLEAN, ok_cpu \in BOOLEAN :
         /\ ok_cpu => alloc_addr(p_heap) # 0
         /\ SbToFsCopy(src,
                bch2_fs_sb_realloc(c_disk_sb_order,
                    src.u64s - field_u64s(src, BCH_SB_FIELD_journal), ok_fs),
                alloc_addr(p_heap), ok_cpu)
    /\ UNCHANGED <<sb_lock, c_replicas_gc, p_thr, p_rd, p_gc, p_writes, p_bug,
                   c_inconsistent, w_res, w_media, w_uaf, wrest, rvars, bvars, f_last, v_ret>>

\* one updater, the gc thread and the thread that calls bch2_sb_to_fs
ToFsNext ==
    \/ \E t \in Updaters : SlowLock(t)
    \/ \E t \in Updaters : SlowGc(t)
    \/ \E t \in Updaters : SlowMark(t)
    \/ \E t \in Updaters : SlowWrite(t)
    \/ GcStart
    \/ GcEnd
    \/ \E o \in Addrs : RcuReclaim(o)
    \/ SbToFs

SpecToFs == RcuInit /\ [][ToFsNext]_vars

-----------------------------------------------------------------------------
(* Properties of the replica-update path *)

\* the entries of the on-disk replicas field of the authoritative image that
\* record data_type on the devices of extent e
DiskEntriesFor(e, data_type) ==
    {k \in 1..Len(sb_replicas_entries(c_disk_sb)) :
        /\ sb_replicas_entries(c_disk_sb)[k].data_type = data_type
        /\ SeqToSet(sb_replicas_entries(c_disk_sb)[k].devs)
             = SeqToSet(extent_dirty_devs(e))}

\* the invocations of bch2_write_super made by the threads of T
WritesBy(T) == {k \in 1..Len(p_writes) : p_writes[k].by \in T}

\* t1 and t2 are the only callers of bch2_check_mark_super_slowpath so far;
\* each called it once with the same data type and device set, no gc ran, and
\* both calls returned 0 (no allocation failed)
SamePairReturned(t1, t2) ==
    /\ t1 # t2
    /\ p_gc.runs = 0
    /\ \A t \in Updaters \ {t1, t2} : p_thr[t].calls = 0 /\ p_thr[t].pc = "idle"
    /\ \A t \in {t1, t2} :
         /\ p_thr[t].pc = "idle"
         /\ p_thr[t].calls = 1
         /\ p_thr[t].ret = 0
    /\ p_thr[t1].data_type = p_thr[t2].data_type
    /\ SeqToSet(extent_dirty_devs(p_thr[t1].e)) = SeqToSet(extent_dirty_devs(p_thr[t2].e))

C2_NoReaderOfFreedArray ==
    \A t \in Readers :
        /\ ~p_rd[t].uaf
        /\ p_rd[t].ptr # 0 =>
             /\ p_heap[p_rd[t].ptr].status \in {"live", "retired"}
             /\ p_heap[p_rd[t].ptr].status = "retired" => t \in p_heap[p_rd[t].ptr].wait

\* a reader has read an array that was replaced after the reader obtained its
\* pointer, and the array is still allocated
C2_Witness ==
    \E t \in Readers :
        /\ p_rd[t].pc = "scanned"
        /\ p_rd[t].ptr # 0
        /\ p_rd[t].ptr # c_replicas
        /\ p_heap[p_rd[t].ptr].status = "retired"

-----------------------------------------------------------------------------
(* Field directory: calls of bch2_sb_field_resize and bch2_fs_sb_field_resize *)

\* bound on the resize calls of a run
MaxResize == 2

\* field types and lengths asked for: none, header only, small, the size of
\* the member table, one that needs a second page, one beyond the size budget
\* of the layout (512 << ReadBits bytes)
FieldTypes == 0..(BCH_SB_FIELD_NR - 1)
FieldSizes == {0, 1, 2, 4, 420, 950}

\* no call was made yet
NoResize ==
    [n |-> 0, op |-> "none", dev |-> 0, type |-> 0, u64s |-> 0, f |-> 0, err |-> 0,
     uaf |-> FALSE, crashed |-> FALSE, before |-> NoImage, before_devs |-> <<>>,
     before_order |-> 0, before_dev_orders |-> <<>>, online |-> {}, ok |-> TRUE,
     a |-> <<>>]

\* the images the member devices hold
dev_images(devs) == [d \in Devs |-> devs[d].disk_sb.sb[1]]

\* the orders of the buffers that hold them
dev_orders(devs) == [d \in Devs |-> devs[d].disk_sb.page_order]

fvars == <<c_seq0, c_opts, c_error, c_inconsistent, c_sb, w_i, w_super_idx, w_wrote,
           w_inflight, w_cl, w_media, w_log, w_uaf, w_pc,
           sb_lock, c_replicas, c_replicas_gc, p_heap, p_thr, p_rd, p_gc, p_writes,
           p_bug, v_call, v_ret, rvars, bvars>>

\* outcomes of the allocations of bch2_sb_realloc on the handle h: they are
\* made only when the image outgrows its pages
SbAllocs(h, type, u64s) ==
    IF get_order(sb_bytes(h.sb[1].u64s + u64s - field_u64s(h.sb[1], type))) > h.page_order
    THEN AllocOutcomes ELSE {"ok"}

\* what a call of bch2_sb_field_resize on device d left: fr is its result, ub
\* the outcome of the accesses through the dangling pointer, if any was made
DevResized(d, type, u64s, fr, a, ub) ==
    /\ ca' = [ca EXCEPT ![d].disk_sb = fr.sb]
    /\ w_res' = fr.res
    /\ f_last' = [n |-> f_last.n + 1, op |-> "dev", dev |-> d, type |-> type,
                  u64s |-> u64s, f |-> fr.f, err |-> fr.err, uaf |-> fr.uaf,
                  crashed |-> (fr.uaf /\ ub = "crash"),
                  before |-> ca[d].disk_sb.sb[1], before_devs |-> dev_images(ca),
                  before_order |-> ca[d].disk_sb.page_order,
                  before_dev_orders |-> dev_orders(ca), online |-> {d},
                  ok |-> TRUE, a |-> [e \in Devs |-> a]]

\* bch2_sb_field_resize(&ca->disk_sb, type, u64s) on a member device
DevFieldResize ==
    /\ f_last.n < MaxResize
    /\ ~f_last.crashed
    /\ \E d \in Devs, type \in FieldTypes, u64s \in FieldSizes,
          ub \in {"stale", "crash"} :
       \E a \in SbAllocs(ca[d].disk_sb, type, u64s) :
         DevResized(d, type, u64s,
                    bch2_sb_field_resize(ca[d].disk_sb, w_res, type, u64s, a), a, ub)
    /\ UNCHANGED <<c_disk_sb, c_disk_sb_order, fvars>>

\* what a call of bch2_fs_sb_field_resize left; ok and a are the outcomes of
\* the page allocations for the filesystem image and for the devices
FsResized(type, u64s, fr, ok, a, ub) ==
    /\ c_disk_sb' = fr.sb
    /\ c_disk_sb_order' = fr.order
    /\ ca' = fr.ca
    /\ w_res' = fr.res
    /\ f_last' = [n |-> f_last.n + 1, op |-> "fs", dev |-> 0, type |-> type,
                  u64s |-> u64s, f |-> fr.f, err |-> 0, uaf |-> fr.uaf,
                  crashed |-> (fr.uaf /\ ub = "crash"),
                  before |-> c_disk_sb, before_devs |-> dev_images(ca),
                  before_order |-> c_disk_sb_order,
                  before_dev_orders |-> dev_orders(ca),
                  online |-> {d \in Devs : ca[d].online}, ok |-> ok, a |-> a]

\* bch2_fs_sb_field_resize(c, type, u64s)
FsFieldResize ==
    /\ f_last.n < MaxResize
    /\ ~f_last.crashed
    /\ \E type \in FieldTypes, u64s \in FieldSizes, ub \in {"stale", "crash"} :
       \E ok \in FsAllocs(c_disk_sb, c_disk_sb_order, type, u64s),
          a \in DevAllocs(c_disk_sb, ca, type, u64s) :
         FsResized(type, u64s,
                   bch2_fs_sb_field_resize(c_disk_sb, c_disk_sb_order, ca, w_res,
                                           type, u64s, ok, a), ok, a, ub)
    /\ UNCHANGED fvars

FieldNext == DevFieldResize \/ FsFieldResize

\* a filesystem of NDev members, any of them online, whose images hold a member
\* table, a replicas field and (the devices) a journal field
FieldInit ==
    /\ ReadIdle
    /\ BioIdle
    /\ w_pc = "idle"
    /\ c_disk_sb = WImage(0, WSeq, GoodFlags, <<8, 24>>,
                          <<WMembersField(WMember(2048, 8)),
                            WReplicasField(3, <<1, 1, 0, 2, 2, 0, 1>>)>>)
    /\ \E on \in [Devs -> BOOLEAN] :
         ca = [d \in Devs |-> WDev(d, <<8, 24>>, on[d], 0, 512)]
    /\ c_seq0 = c_disk_sb.seq
    /\ c_opts = [nochanges |-> FALSE, metadata_checksum |-> 1]
    /\ c_error = FALSE
    /\ c_inconsistent = FALSE
    /\ c_sb = <<sb_update_summary(c_disk_sb)>>
    /\ w_res = [bios |-> NDev, pages |-> NDev, opens |-> NDev]
    /\ w_i = 0
    /\ w_super_idx = 0
    /\ w_wrote = FALSE
    /\ w_inflight = {}
    /\ w_cl = 0
    /\ w_media = [d \in Devs |-> WMedia(ca[d].disk_sb.sb[1])]
    /\ w_log = <<>>
    /\ w_uaf = {}
    /\ sb_lock = 0
    /\ c_disk_sb_order = 0
    /\ c_replicas = 0
    /\ c_replicas_gc = 0
    /\ p_heap = <<>>
    /\ p_thr = <<>>
    /\ p_rd = <<>>
    /\ p_gc = IdleGc
    /\ p_writes = <<>>
    /\ p_bug = FALSE
    /\ f_last = NoResize
    /\ v_call = <<>>
    /\ v_ret = <<>>

SpecField == FieldInit /\ [][FieldNext]_vars

-----------------------------------------------------------------------------
(* Properties of the field directory *)

\* the image the last call worked on, as it is now
ResizedImage ==
    IF f_last.op = "dev" THEN ca[f_last.dev].disk_sb.sb[1] ELSE c_disk_sb

\* the last call returned a field
ResizeSucceeded == f_last.op # "none" /\ f_last.f # 0 /\ ~f_last.crashed

\* the payload of field f read as cap items: what was written, then zeros
Payload(f, cap) ==
    [k \in 1..cap |->
        IF k <= Len(f.data) THEN f.data[k]
        ELSE IF f.type = BCH_SB_FIELD_members THEN ZeroMember ELSE 0]

\* the fields of an image other than the first one of type T, in order
OtherFields(sb, T) ==
    IF bch2_sb_field_get(sb, T) = 0 THEN sb.fields
    ELSE without_field(sb.fields, bch2_sb_field_get(sb, T))

\* the first field of type T of an image, an empty one when it has none
FieldOf(sb, T) ==
    IF bch2_sb_field_get(sb, T) = 0 THEN [type |-> T, u64s |-> 0, data |-> <<>>]
    ELSE sb.fields[bch2_sb_field_get(sb, T)]

\* the round trip of a resize from image old to image new: the field of type T
\* has n words, the other fields are as they were, the payload common to the
\* old and the new length is kept and the rest of it is zero, the length of
\* the image follows, and a field that was missing is the last one
ResizeRoundTrip(old, new, T, n) ==
    /\ bch2_sb_field_get(new, T) # 0
    /\ FieldOf(new, T).u64s = n
    /\ OtherFields(new, T) = OtherFields(old, T)
    /\ Payload(FieldOf(new, T), field_capacity(T, n))
         = Payload([FieldOf(old, T) EXCEPT
                      !.data = Trunc(@, field_capacity(T, FieldOf(old, T).u64s))],
                   field_capacity(T, n))
    /\ new.u64s = old.u64s + n - FieldOf(old, T).u64s
    /\ bch2_sb_field_get(old, T) = 0 => bch2_sb_field_get(new, T) = Len(new.fields)

\* C11: after every successful resize of the field of type T to n words, the
\* image holds a field of type T with exactly n words, every other field is
\* unchanged and in the same order, the bytes of T within the old and the new
\* length are unchanged, newly exposed bytes are zero, and the image length
\* changed by n minus the old length
C11_ResizeRoundTrip ==
    ResizeSucceeded =>
        ResizeRoundTrip(f_last.before, ResizedImage, f_last.type, f_last.u64s)

\* the same for the calls that ask for at least the header word and whose
\* buffer is not replaced while the field exists
C11_ResizeRoundTripInPlace ==
    (ResizeSucceeded /\ f_last.u64s >= 1 /\ ~f_last.uaf) =>
        ResizeRoundTrip(f_last.before, ResizedImage, f_last.type, f_last.u64s)

\* a field that holds payload was shrunk and another one follows it
C11_Witness ==
    /\ ResizeSucceeded
    /\ f_last.u64s >= 1
    /\ bch2_sb_field_get(f_last.before, f_last.type) # 0
    /\ bch2_sb_field_get(f_last.before, f_last.type) < Len(f_last.before.fields)
    /\ Len(FieldOf(ResizedImage, f_last.type).data)
         < Len(FieldOf(f_last.before, f_last.type).data)

\* the size budget of an image in bytes: 512 << layout.sb_max_size_bits
SizeBudget(sb) == 512 * Pow2(sb.layout.sb_max_size_bits)

\* the length in bytes the image old would have with its field of type T at n words
ResizedBytes(old, T, n) == sb_bytes(old.u64s + n - FieldOf(old, T).u64s)

\* C12: a call of bch2_sb_field_resize that would make the image larger than
\* 512 << layout.sb_max_size_bits bytes returns NULL with the size-exceeded
\* error and leaves the image as it was: the field, every other field and the
\* total length
C12_TooLargeLeavesImage ==
    (f_last.op = "dev"
        /\ ResizedBytes(f_last.before, f_last.type, f_last.u64s) > SizeBudget(f_last.before))
    => /\ f_last.f = 0
       /\ f_last.err = -ENOSPC
       /\ ResizedImage = f_last.before

\* a field that exists was asked to grow beyond the budget
C12_Witness ==
    /\ f_last.op = "dev"
    /\ ResizedBytes(f_last.before, f_last.type, f_last.u64s) > SizeBudget(f_last.before)
    /\ bch2_sb_field_get(f_last.before, f_last.type) # 0
    /\ f_last.f = 0

\* the words the last call adds to an image
ResizeDelta == f_last.u64s - FieldOf(f_last.before, f_last.type).u64s

\* growing the buffer of the filesystem image failed in the last call
FsGrowFailed ==
    /\ get_order(sb_bytes(f_last.before.u64s + ResizeDelta)) > f_last.before_order
    /\ ~f_last.ok

\* growing the buffer of device d would fail in the last call: the image would
\* exceed its budget, or the pages it needs are not allocated
DevGrowFails(d) ==
    \/ sb_bytes(f_last.before_devs[d].u64s + ResizeDelta) > SizeBudget(f_last.before_devs[d])
    \/ /\ get_order(sb_bytes(f_last.before_devs[d].u64s + ResizeDelta))
              > f_last.before_dev_orders[d]
       /\ f_last.a[d] # "ok"

\* C13: bch2_fs_sb_field_resize is all-or-nothing: when growing the buffer
\* fails for the filesystem image or for an online device the call returns
\* NULL; whenever it returns NULL the authoritative image and the image of
\* every device are as before the call; the authoritative image is changed
\* only when no capacity request failed
C13_AllOrNothing ==
    f_last.op = "fs" =>
        /\ (FsGrowFailed \/ \E d \in f_last.online : DevGrowFails(d)) => f_last.f = 0
        /\ f_last.f = 0 => (c_disk_sb = f_last.before /\ dev_images(ca) = f_last.before_devs)
        /\ c_disk_sb # f_last.before =>
              (~FsGrowFailed /\ \A d \in f_last.online : ~DevGrowFails(d))

\* the capacity request of the second device failed after the one of the
\* first device was granted, and the call returned NULL
C13_Witness ==
    /\ f_last.op = "fs"
    /\ f_last.n = 1
    /\ f_last.online = Devs
    /\ ~FsGrowFailed
    /\ ~DevGrowFails(0)
    /\ DevGrowFails(1)
    /\ ca[0].disk_sb.page_order > 0
    /\ f_last.f = 0

\* C14: a capacity request beyond 512 << sb_max_size_bits bytes fails without
\* changing the buffer, for the buffer of a device and for the buffer of the
\* filesystem image, and no image is ever longer than that budget
C14_NoImageBeyondBudget ==
    /\ sb_bytes(c_disk_sb.u64s) <= SizeBudget(c_disk_sb)
    /\ \A d \in Devs : sb_bytes(ca[d].disk_sb.sb[1].u64s) <= SizeBudget(ca[d].disk_sb.sb[1])
    /\ (f_last.op = "fs" /\ sb_bytes(f_last.before.u64s + ResizeDelta) > SizeBudget(f_last.before))
          => (f_last.f = 0 /\ c_disk_sb_order = f_last.before_order)
    /\ (f_last.op = "dev" /\ ResizedBytes(f_last.before, f_last.type, f_last.u64s)
                                 > SizeBudget(f_last.before))
          => (f_last.f = 0 /\ ca[f_last.dev].disk_sb.page_order = f_last.before_order)

-----------------------------------------------------------------------------
(* The validators applied to images and fields drawn from bounded sets *)

\* sequences over S of length 0..n
SeqsUpTo(S, n) == UNION {[1..k -> S] : k \in 0..n}

\* layouts: a wrong magic, an unknown type, no superblock, more superblocks
\* than sb_offset holds, shifts of less than, exactly and more than the width
\* of an int, and offsets at several distances
LayoutBits == {0, 3, 4, 31, 32, 35}
LayoutOffsets == {8, 9, 16, 24, 40}
LayoutInputs ==
    {[magic |-> m, layout_type |-> t, nr_superblocks |-> nr,
      sb_max_size_bits |-> b, sb_offset |-> o] :
        m \in {BCACHE_MAGIC, "zero"}, t \in {0, 1},
        nr \in {0, 1, 2, 3, BCH_SB_LAYOUT_NR + 1},
        b \in LayoutBits, o \in [1..3 -> LayoutOffsets]}

LayoutCalls == {[fn |-> "layout", layout |-> l] : l \in LayoutInputs}

\* journal fields: lists of up to MaxJournal buckets, on a member whose
\* buckets run from first_bucket to nbuckets
MaxJournal == 3
JournalBuckets == {0, 1, 5, 6, 3000}
JournalMember(first_bucket) ==
    [nbuckets |-> 2048, first_bucket |-> first_bucket, bucket_size |-> 8, valid |-> TRUE]

JournalImage(present, b) ==
    WImage(0, WSeq, GoodFlags, <<8, 24>>,
           <<WMembersField(WMember(2048, 8))>>
           \o (IF present
               THEN <<[type |-> BCH_SB_FIELD_journal, u64s |-> 1 + Len(b), data |-> b]>>
               ELSE <<>>))

JournalCalls ==
    {[fn |-> "journal", present |-> pr, buckets |-> b, mi |-> JournalMember(fb),
      sb |-> JournalImage(pr, b)] :
        pr \in BOOLEAN, b \in SeqsUpTo(JournalBuckets, MaxJournal), fb \in {1, 5}}

\* replicas fields: up to MaxEntries entries, among them the same devices in
\* two orders, an unknown data type, BCH_REPLICAS_MAX devices and a device index
\* beyond nr_devices; device 1 is a member or not
MaxEntries == 3
ReplicaEntries ==
    {[data_type |-> 1, devs |-> <<0>>], [data_type |-> 1, devs |-> <<0, 1>>],
     [data_type |-> 1, devs |-> <<1, 0>>], [data_type |-> 2, devs |-> <<1>>],
     [data_type |-> BCH_DATA_NR, devs |-> <<0>>],
     [data_type |-> 1, devs |-> <<0, 1, 0, 1>>], [data_type |-> 1, devs |-> <<NDev>>]}

RECURSIVE EntryBytes(_)
\* the bytes of a list of entries: data_type, nr and the devices of each
EntryBytes(es) ==
    IF es = <<>> THEN <<>>
    ELSE <<es[1].data_type, Len(es[1].devs)>> \o es[1].devs \o EntryBytes(Tail(es))

ReplicasImage(es, dev1) ==
    WImage(0, WSeq, GoodFlags, <<8, 24>>,
           <<WMembersField([WMember(2048, 8) EXCEPT !.uuid = IF dev1 THEN 1 ELSE 0]),
             WReplicasField(1 + DivRoundUp(Len(EntryBytes(es)), 8), EntryBytes(es))>>)

ReplicasCalls ==
    {[fn |-> "replicas", entries |-> es, members |-> IF dev1 THEN Devs ELSE Devs \ {1},
      sb |-> ReplicasImage(es, dev1)] :
        es \in SeqsUpTo(ReplicaEntries, MaxEntries), dev1 \in BOOLEAN}

\* bch2_sb_validate_replicas(sb)
CallValidateReplicas ==
    /\ v_call # <<>>
    /\ v_call.fn = "replicas"
    /\ v_ret = <<>>
    /\ v_ret' = <<bch2_sb_validate_replicas(v_call.sb)>>
    /\ UNCHANGED <<rvars, wvars, pvars, bvars, f_last, v_call>>

\* ways an image departs from a valid one, each violating a check of
\* bch2_sb_validate
Defects ==
    {"version", "block_size", "user_uuid", "uuid", "dev_idx", "meta_want", "meta_req",
     "data_want", "data_req", "btree_unset", "btree_odd", "btree_large", "gc_reserve",
     "time_precision", "layout", "field_type", "member_bucket", "few_buckets",
     "bucket_size", "journal_dup", "replicas_dup"}

\* the position of the field of a type, which the image has
FieldAt(sb, type) == bch2_sb_field_get(sb, type)

with_defect(sb, d) ==
    CASE d = "version" -> [sb EXCEPT !.version = 0]
      [] d = "block_size" -> [sb EXCEPT !.block_size = 2 * PAGE_SECTORS]
      [] d = "user_uuid" -> [sb EXCEPT !.user_uuid = 0]
      [] d = "uuid" -> [sb EXCEPT !.uuid = 0]
      [] d = "dev_idx" -> [sb EXCEPT !.dev_idx = sb.nr_devices]
      [] d = "meta_want" -> [sb EXCEPT !.flags.meta_want = 0]
      [] d = "meta_req" -> [sb EXCEPT !.flags.meta_req = BCH_REPLICAS_MAX]
      [] d = "data_want" -> [sb EXCEPT !.flags.data_want = BCH_REPLICAS_MAX]
      [] d = "data_req" -> [sb EXCEPT !.flags.data_req = 0]
      [] d = "btree_unset" -> [sb EXCEPT !.flags.btree_node_size = 0]
      [] d = "btree_odd" -> [sb EXCEPT !.flags.btree_node_size = 3]
      [] d = "btree_large" -> [sb EXCEPT !.flags.btree_node_size = 2 * BTREE_NODE_SIZE_MAX]
      [] d = "gc_reserve" -> [sb EXCEPT !.flags.gc_reserve = 4]
      [] d = "time_precision" -> [sb EXCEPT !.time_precision = 0]
      [] d = "layout" -> [sb EXCEPT !.layout.nr_superblocks = 0]
      [] d = "field_type" ->
            [sb EXCEPT !.fields = Append(@, [type |-> BCH_SB_FIELD_NR, u64s |-> 1,
                                             data |-> <<>>]),
                       !.u64s = @ + 1]
      [] d = "member_bucket" ->
            [sb EXCEPT !.fields[FieldAt(sb, BCH_SB_FIELD_members)].data[2].bucket_size = 4]
      [] d = "few_buckets" ->
            [sb EXCEPT !.fields[FieldAt(sb, BCH_SB_FIELD_members)].data[1].nbuckets = 100]
      [] d = "bucket_size" ->
            [sb EXCEPT !.fields[FieldAt(sb, BCH_SB_FIELD_members)].data[1].bucket_size = 24]
      [] d = "journal_dup" ->
            [sb EXCEPT !.fields[FieldAt(sb, BCH_SB_FIELD_journal)].data = <<2, 2>>]
      [] d = "replicas_dup" ->
            [sb EXCEPT !.fields[FieldAt(sb, BCH_SB_FIELD_replicas)] =
                           WReplicasField(2, <<1, 1, 0, 1, 1, 0>>)]

RECURSIVE with_defects(_, _)
with_defects(sb, D) ==
    IF D = {} THEN sb
    ELSE with_defects(with_defect(sb, CHOOSE d \in D : TRUE), D \ {CHOOSE d \in D : TRUE})

\* images with up to MaxDefects defects, on a device that holds them or is too
\* small for its buckets
MaxDefects == 2
DefectCalls ==
    {[fn |-> "validate", sb |-> with_defects(DevImage(0, <<8, 24>>), D), capacity |-> cap] :
        D \in {X \in SUBSET Defects : Cardinality(X) <= MaxDefects},
        cap \in {WCapacity, 1000}}

\* images whose local member has nbuckets buckets, the first usable one being
\* first_bucket, with and without a journal field
BucketCounts == {0, 1023, 1024, 1025, 2048, 3000}
FirstBuckets == {0, 1, 1025, 2049, 4000}
LocalImage(nbuckets, first_bucket, journal) ==
    WImage(0, WSeq, GoodFlags, <<8, 24>>,
           <<[WMembersField(WMember(2048, 8)) EXCEPT
                 !.data[1].nbuckets = nbuckets, !.data[1].first_bucket = first_bucket],
             WReplicasField(2, <<1, 1, 0>>)>>
           \o (IF journal THEN <<WJournalField>> ELSE <<>>))

LocalCalls ==
    {[fn |-> "validate", sb |-> LocalImage(nb, fb, j), capacity |-> 2 * WCapacity] :
        nb \in BucketCounts, fb \in FirstBuckets, j \in BOOLEAN}

\* bch2_sb_validate(disk_sb)
CallValidate ==
    /\ v_call # <<>>
    /\ v_call.fn = "validate"
    /\ v_ret = <<>>
    /\ v_ret' = <<bch2_sb_validate(v_call.sb, v_call.capacity)>>
    /\ UNCHANGED <<rvars, wvars, pvars, bvars, f_last, v_call>>

\* validate_sb_layout(&sb->layout)
CallValidateLayout ==
    /\ v_call # <<>>
    /\ v_call.fn = "layout"
    /\ v_ret = <<>>
    /\ \E max_sectors \in ShiftOutcomes(v_call.layout.sb_max_size_bits) :
         v_ret' = <<validate_sb_layout_with(v_call.layout, max_sectors)>>
    /\ UNCHANGED <<rvars, wvars, pvars, bvars, f_last, v_call>>

\* bch2_sb_validate_journal(sb, mi)
CallValidateJournal ==
    /\ v_call # <<>>
    /\ v_call.fn = "journal"
    /\ v_ret = <<>>
    /\ v_ret' = <<bch2_sb_validate_journal(v_call.sb, v_call.mi)>>
    /\ UNCHANGED <<rvars, wvars, pvars, bvars, f_last, v_call>>

ValidNext ==
    \/ CallValidate
    \/ CallValidateLayout
    \/ CallValidateJournal
    \/ CallValidateReplicas

\* no filesystem is open; one call of a validator is about to be made
ValidInit ==
    /\ ReadIdle
    /\ BioIdle
    /\ WriteIdle
    /\ ReplIdle
    /\ f_last = <<>>
    /\ v_ret = <<>>
    /\ v_call \in DefectCalls \cup LocalCalls \cup LayoutCalls \cup JournalCalls
                  \cup ReplicasCalls

SpecValid == ValidInit /\ [][ValidNext]_vars

\* a validator was called and returned
Returned(fn) == v_call # <<>> /\ v_call.fn = fn /\ v_ret # <<>>

IsSorted(b) == \A k \in 1..(Len(b) - 1) : b[k] <= b[k + 1]

\* what is required of the bucket list of a journal field
JournalListOk(b, mi) ==
    /\ b # <<>>
    /\ IsSorted(b)
    /\ \A k \in 1..Len(b) : b[k] # 0 /\ b[k] >= mi.first_bucket /\ b[k] < mi.nbuckets
    /\ \A j, k \in 1..Len(b) : j # k => b[j] # b[k]

\* C17: when a journal field is present the journal check accepts the image
\* if and only if the bucket list is non-empty, sorted, without bucket 0, within
\* [first_bucket, nbuckets) of the local member and without duplicates
C17_JournalAcceptedIff ==
    (Returned("journal") /\ v_call.present) =>
        (v_ret[1] = NULL <=> JournalListOk(v_call.buckets, v_call.mi))

\* the same for the lists that are neither empty nor out of order
C17_JournalAcceptedIffSorted ==
    (Returned("journal") /\ v_call.present
        /\ v_call.buckets # <<>> /\ IsSorted(v_call.buckets)) =>
        (v_ret[1] = NULL <=> JournalListOk(v_call.buckets, v_call.mi))

\* what is required of the entries of a replicas field
ReplicasOk(es, members) ==
    /\ \A k \in 1..Len(es) :
         /\ es[k].data_type < BCH_DATA_NR
         /\ Len(es[k].devs) < BCH_REPLICAS_MAX
         /\ SeqToSet(es[k].devs) \subseteq members
    /\ \A j, k \in 1..Len(es) :
         j # k => ~(es[j].data_type = es[k].data_type
                    /\ SeqToSet(es[j].devs) = SeqToSet(es[k].devs))

GapAtLeast(offset, prev_offset, bits) ==
    bits < 31 /\ offset >= prev_offset + Pow2(bits)

\* what is required of a layout
LayoutOk(l) ==
    /\ l.magic = BCACHE_MAGIC
    /\ l.layout_type = 0
    /\ l.nr_superblocks \in 1..BCH_SB_LAYOUT_NR
    /\ \A i \in 2..l.nr_superblocks :
         GapAtLeast(l.sb_offset[i], l.sb_offset[i - 1], l.sb_max_size_bits)

\* C20: validate_sb_layout accepts a layout if and only if the magic is the
\* constant, layout_type is 0, nr_superblocks lies in [1, capacity of
\* sb_offset] and every offset is at least 2^sb_max_size_bits beyond its
\* predecessor, for every value of sb_max_size_bits
C20_LayoutAcceptedIff ==
    Returned("layout") => (v_ret[1] = NULL <=> LayoutOk(v_call.layout))

\* the same for the shifts that fit an int
C20_LayoutAcceptedIffShiftInRange ==
    (Returned("layout") /\ v_call.layout.sb_max_size_bits < 32) =>
        (v_ret[1] = NULL <=> LayoutOk(v_call.layout))

\* the checks of bch2_sb_validate in the order of the function
NrChecks == 16

\* the reason the k-th check gives for the image on its own, NULL when the
\* image passes it; the checks on the local member, the journal and the
\* replicas read the member table and pass when there is none
check_reason(sb, capacity, k) ==
    CASE k = 1 -> IF sb.version # BCACHE_SB_VERSION_CDEV_V4
                  THEN "Unsupported superblock version" ELSE NULL
      [] k = 2 -> IF ~is_power_of_2(sb.block_size) \/ sb.block_size > PAGE_SECTORS
                  THEN "Bad block size" ELSE NULL
      [] k = 3 -> IF sb.user_uuid = 0 THEN "Bad user UUID" ELSE NULL
      [] k = 4 -> IF sb.uuid = 0 THEN "Bad internal UUID" ELSE NULL
      [] k = 5 -> IF sb.nr_devices = 0 \/ sb.nr_devices <= sb.dev_idx
                     \/ sb.nr_devices > BCH_SB_MEMBERS_MAX
                  THEN "Bad cache device number in set" ELSE NULL
      [] k = 6 -> IF replica_count_bad(sb.flags.meta_want)
                     \/ replica_count_bad(sb.flags.meta_req)
                  THEN "Invalid number of metadata replicas" ELSE NULL
      [] k = 7 -> IF replica_count_bad(sb.flags.data_want)
                  THEN "Invalid number of data replicas"
                  ELSE IF replica_count_bad(sb.flags.data_req)
                  THEN "Invalid number of metadata replicas" ELSE NULL
      [] k = 8 -> IF sb.flags.btree_node_size = 0 THEN "Btree node size not set"
                  ELSE IF ~is_power_of_2(sb.flags.btree_node_size)
                  THEN "Btree node size not a power of two"
                  ELSE IF sb.flags.btree_node_size > BTREE_NODE_SIZE_MAX
                  THEN "Btree node size too large" ELSE NULL
      [] k = 9 -> IF sb.flags.gc_reserve < 5
                  THEN "gc reserve percentage too small" ELSE NULL
      [] k = 10 -> IF sb.time_precision = 0 \/ sb.time_precision > NSEC_PER_SEC
                   THEN "invalid time precision" ELSE NULL
      [] k = 11 -> validate_sb_layout(sb.layout)
      [] k = 12 -> fields_err(sb, 1, 0)
      [] k = 13 -> bch2_sb_validate_members(sb)
      [] k = 14 -> IF FieldAt(sb, BCH_SB_FIELD_members) = 0 THEN NULL
                   ELSE local_member_err(sb, local_member(sb), capacity)
      [] k = 15 -> IF FieldAt(sb, BCH_SB_FIELD_members) = 0 THEN NULL
                   ELSE bch2_sb_validate_journal(sb, local_member(sb))
      [] k = 16 -> IF FieldAt(sb, BCH_SB_FIELD_members) = 0 THEN NULL
                   ELSE bch2_sb_validate_replicas(sb)

\* the checks the image violates
Violated(sb, capacity) == {k \in 1..NrChecks : check_reason(sb, capacity, k) # NULL}

SetMin(S) == CHOOSE m \in S : \A k \in S : m <= k

C16_ReplicaReasonsDistinct ==
    Returned("validate") =>
        /\ Violated(v_call.sb, v_call.capacity) = {7}
              => v_ret[1] = "Invalid number of data replicas"
        /\ Violated(v_call.sb, v_call.capacity) = {6}
              => v_ret[1] = "Invalid number of metadata replicas"

\* C18: an image whose local member has fewer than 1024 buckets beyond
\* first_bucket (nbuckets < first_bucket + 1024 as natural numbers) is rejected
C18_FewBucketsRejected ==
    (/\ Returned("validate")
     /\ FieldAt(v_call.sb, BCH_SB_FIELD_members) # 0
     /\ local_member(v_call.sb).nbuckets < local_member(v_call.sb).first_bucket + 1024)
        => v_ret[1] # NULL

-----------------------------------------------------------------------------
(* Calls of the index conversions, of __bch2_replicas_status and of
   bch2_sb_from_fs on inputs drawn from bounded sets *)

\* entries of valid replicas fields on the member devices
StatusEntries ==
    {[data_type |-> t, devs |-> d] :
        t \in {BCH_DATA_BTREE, BCH_DATA_USER}, d \in {<<0>>, <<0, 1>>, <<1>>}}

\* lists of entries no two of which have the same data type and devices
NoDuplicates(es) ==
    \A j, k \in 1..Len(es) :
        j # k => ~(es[j].data_type = es[k].data_type
                   /\ SeqToSet(es[j].devs) = SeqToSet(es[k].devs))

\* calls of __bch2_replicas_status(c, dev_to_offline): the index of a field,
\* the devices that are online, and the device to leave out (NDev for NULL)
StatusCalls ==
    {[fn |-> "status", entries |-> es, online |-> on, x |-> x,
      sb |-> ReplicasImage(es, TRUE)] :
        es \in {l \in SeqsUpTo(StatusEntries, MaxEntries) : NoDuplicates(l)},
        on \in [Devs -> BOOLEAN], x \in 0..NDev}

\* entries whose devices need one, and two, bytes of bitmap; an entry without
\* devices
RoundTripEntries ==
    {[data_type |-> t, devs |-> d] :
        t \in {1, BCH_DATA_USER}, d \in {<<>>, <<0>>, <<1, 0>>, <<7>>, <<8, 0>>}}

RoundTripCalls ==
    {[fn |-> "to_cpu", entries |-> es, sb |-> ReplicasImage(es, TRUE)] :
        es \in {l \in SeqsUpTo(RoundTripEntries, MaxEntries) : NoDuplicates(l)}}

\* __bch2_replicas_status(c, dev_to_offline) on the index of the image
CallReplicasStatus ==
    /\ v_call # <<>>
    /\ v_call.fn = "status"
    /\ v_ret = <<>>
    /\ v_ret' = <<__bch2_replicas_status(
                      __bch2_sb_replicas_to_cpu_replicas(v_call.sb), NDev,
                      [d \in Devs |-> [online |-> v_call.online[d]]], v_call.x)>>
    /\ UNCHANGED <<rvars, wvars, pvars, bvars, f_last, v_call>>

\* __bch2_sb_replicas_to_cpu_replicas(sb_r)
CallToCpuReplicas ==
    /\ v_call # <<>>
    /\ v_call.fn = "to_cpu"
    /\ v_ret = <<>>
    /\ v_ret' = <<__bch2_sb_replicas_to_cpu_replicas(v_call.sb)>>
    /\ UNCHANGED <<rvars, wvars, pvars, bvars, f_last, v_call>>

\* the replicas field bch2_replicas_gc_end writes from the index r
gc_end_field(r) ==
    [type |-> BCH_SB_FIELD_replicas, u64s |-> DivRoundUp(8 + gc_end_size(r), 8),
     data |-> gc_end_bytes(r, 1)]

\* the rewrite of the field by bch2_replicas_gc_end from the index just derived
CallGcEndEncode ==
    /\ v_call # <<>>
    /\ v_call.fn = "to_cpu"
    /\ Len(v_ret) = 1
    /\ v_ret' = <<v_ret[1], gc_end_field(v_ret[1])>>
    /\ UNCHANGED <<rvars, wvars, pvars, bvars, f_last, v_call>>

\* authoritative images: those of the write path, and one that carries a
\* journal field of its own
FromFsSources ==
    FsImages \cup
    { WImage(0, WSeq + 1, GoodFlags, <<8, 24>>,
             <<[type |-> BCH_SB_FIELD_journal, u64s |-> 4, data |-> <<5, 6, 7>>],
               WMembersField(WMember(2048, 8)),
               WReplicasField(3, <<1, 1, 0, 2, 2, 0, 1>>)>>) }

\* device images: the journal field last, first, and none; one written when
\* the filesystem had a single member and a long replicas field, which fills
\* its page but for five words
FromFsDevImages ==
    { DevImage(1, <<8, 24>>),
      WImage(1, WSeq, GoodFlags, <<8, 24>>,
             <<WJournalField, WMembersField(WMember(2048, 8))>>),
      WImage(1, WSeq, GoodFlags, <<8, 24>>,
             <<WMembersField(WMember(2048, 8)), WReplicasField(2, <<1, 1, 0>>)>>),
      WImage(1, WSeq, GoodFlags, <<8, 24>>,
             <<[type |-> BCH_SB_FIELD_members, u64s |-> 1 + MEMBER_U64S,
                data |-> <<WMember(2048, 8)>>],
               WReplicasField(405, <<1, 1, 0, 2, 2, 0, 1>>)>>) }

\* calls of bch2_sb_from_fs(c, ca): c->disk_sb, the handle of the device with
\* a buffer of one or two pages, and the outcome of an allocation
FromFsCalls ==
    {[fn |-> "from_fs", src |-> src, h |-> WHandle(img, order), a |-> a] :
        src \in FromFsSources, img \in FromFsDevImages, order \in {0, 1},
        a \in AllocOutcomes}

\* bch2_sb_from_fs(c, ca)
CallSbFromFs ==
    /\ v_call # <<>>
    /\ v_call.fn = "from_fs"
    /\ v_ret = <<>>
    /\ v_ret' = <<bch2_sb_from_fs(v_call.src, v_call.h,
                                  [bios |-> 1, pages |-> 1, opens |-> 1], v_call.a)>>
    /\ UNCHANGED <<rvars, wvars, pvars, bvars, f_last, v_call>>

\* entries for bch2_dev_has_data: devices of the first and of the second byte
\* of the bitmaps
HasDataEntries ==
    {[data_type |-> t, devs |-> d] :
        t \in {BCH_DATA_BTREE, BCH_DATA_USER}, d \in {<<0>>, <<0, 1>>, <<8>>}}

\* calls of bch2_dev_has_data(c, ca): the index of a field and ca->dev_idx
HasDataCalls ==
    {[fn |-> "has_data", entries |-> es, dev |-> d, sb |-> ReplicasImage(es, TRUE)] :
        es \in {l \in SeqsUpTo(HasDataEntries, MaxEntries) : NoDuplicates(l)},
        d \in {0, 1, 8, 16}}

\* bch2_dev_has_data(c, ca) on the index of the image
CallDevHasData ==
    /\ v_call # <<>>
    /\ v_call.fn = "has_data"
    /\ v_ret = <<>>
    /\ v_ret' = <<bch2_dev_has_data(__bch2_sb_replicas_to_cpu_replicas(v_call.sb),
                                    v_call.dev)>>
    /\ UNCHANGED <<rvars, wvars, pvars, bvars, f_last, v_call>>

IndexNext ==
    \/ CallReplicasStatus
    \/ CallToCpuReplicas
    \/ CallGcEndEncode
    \/ CallSbFromFs
    \/ CallDevHasData

IndexInit ==
    /\ ReadIdle
    /\ BioIdle
    /\ WriteIdle
    /\ ReplIdle
    /\ f_last = <<>>
    /\ v_ret = <<>>
    /\ v_call \in StatusCalls \cup RoundTripCalls \cup FromFsCalls \cup HasDataCalls

SpecIndex == IndexInit /\ [][IndexNext]_vars

SetMax(S) == CHOOSE m \in S : \A k \in S : m >= k

\* the devices of an entry that count as online, x being left out
OnlineOf(e, on, x) == {d \in SeqToSet(e.devs) : on[d] /\ d # x}

\* the (data type, device set) pairs of a list of entries
PairsOf(es) == {<<es[k].data_type, SeqToSet(es[k].devs)>> : k \in 1..Len(es)}

\* the entries of type t
OfType(es, t) == {k \in 1..Len(es) : es[k].data_type = t}

\* C21: for every data type with an entry, __bch2_replicas_status(c, x)
\* reports as nr_online the minimum over the entries of the type of the devices
\* that are online and are not x, and as nr_offline the maximum of the devices
\* that are offline or are x; with fewer devices online, or a device passed as
\* x, nr_online is not greater
C21_StatusMinMax ==
    Returned("status") =>
        \A t \in 0..(BCH_DATA_NR - 1) :
            OfType(v_call.entries, t) # {} =>
                /\ v_ret[1][t].nr_online =
                     SetMin({Cardinality(OnlineOf(v_call.entries[k], v_call.online, v_call.x)) :
                                k \in OfType(v_call.entries, t)})
                /\ v_ret[1][t].nr_offline =
                     SetMax({Cardinality(SeqToSet(v_call.entries[k].devs)
                                 \ OnlineOf(v_call.entries[k], v_call.online, v_call.x)) :
                                k \in OfType(v_call.entries, t)})
                /\ \A on \in [Devs -> BOOLEAN] :
                     (\A d \in Devs : v_call.online[d] => on[d]) =>
                        v_ret[1][t].nr_online <=
                           __bch2_replicas_status(
                               __bch2_sb_replicas_to_cpu_replicas(v_call.sb), NDev,
                               [d \in Devs |-> [online |-> on[d]]], NDev)[t].nr_online

\* with both devices online, device 1 passed as x lowers nr_online of a type
\* whose entries all hold it from 2 to 1
C21_Witness ==
    /\ Returned("status")
    /\ v_call.x = 1
    /\ \A d \in Devs : v_call.online[d]
    /\ PairsOf(v_call.entries) = {<<BCH_DATA_USER, {0, 1}>>, <<BCH_DATA_BTREE, {0}>>}
    /\ v_ret[1][BCH_DATA_USER].nr_online = 1
    /\ v_ret[1][BCH_DATA_USER].nr_offline = 1
    /\ v_ret[1][BCH_DATA_BTREE].nr_online = 1

\* C22: deriving the index from a valid replicas field and writing the field
\* again from it, as bch2_replicas_gc_end does, yields the same (data type,
\* device set) pairs, none lost, added or altered
C22_IndexRoundTrip ==
    (v_call # <<>> /\ v_call.fn = "to_cpu" /\ Len(v_ret) = 2) =>
        /\ PairsOf(replicas_entries_from(v_ret[2], 0)) = PairsOf(v_call.entries)
        /\ Len(replicas_entries_from(v_ret[2], 0)) = Len(v_call.entries)
        /\ PairsOf([k \in 1..Len(v_ret[1].entries) |->
                       [data_type |-> v_ret[1].entries[k].data_type,
                        devs |-> set_ascending(v_ret[1].entries[k].devs)]])
             = PairsOf(v_call.entries)

\* a field with devices 7 and 8 and an entry without devices went through
\* the index, which is three bytes wide, and back
C22_Witness ==
    /\ v_call # <<>>
    /\ v_call.fn = "to_cpu"
    /\ Len(v_ret) = 2
    /\ PairsOf(v_call.entries) = {<<1, {7}>>, <<BCH_DATA_USER, {0, 8}>>, <<1, {}>>}
    /\ v_ret[1].entry_size = 3

-----------------------------------------------------------------------------
(* The gc cycle of the replica index *)

\* bit number b of mask is set
TestBit(mask, b) == (mask \div Pow2(b)) % 2 = 1

\* the (data type, device bitmap) entries of the index at address o
IndexEntries(heap, o) == SeqToSet(heap[o].r.entries)

\* the stable index, the on-disk image with its sequence number and the media
\* are left alone and bch2_write_super is not called
StableUntouched ==
    /\ c_replicas' = c_replicas
    /\ p_heap'[c_replicas] = p_heap[c_replicas]
    /\ c_disk_sb' = c_disk_sb
    /\ w_media' = w_media
    /\ p_writes' = p_writes

\* bch2_replicas_gc_start returned 0 in this step
GcStarted == c_replicas_gc = 0 /\ c_replicas_gc' # 0

\* C23: after a successful bch2_replicas_gc_start(typemask) the gc index holds
\* exactly the entries of c->replicas whose data type's bit is clear in
\* typemask, and c->replicas is unchanged
C23_GcStartFilters ==
    [][GcStarted =>
          /\ IndexEntries(p_heap', c_replicas_gc') =
                {en \in IndexEntries(p_heap, c_replicas) :
                    ~TestBit(p_gc'.typemask, en.data_type)}
          /\ c_replicas' = c_replicas
          /\ p_heap'[c_replicas] = p_heap[c_replicas]]_vars

\* what bch2_replicas_gc_start does keep: the entries whose data type, taken
\* as a number, has no bit in common with typemask
C23_GcStartFiltersByValue ==
    [][GcStarted =>
          /\ IndexEntries(p_heap', c_replicas_gc') =
                {en \in IndexEntries(p_heap, c_replicas) :
                    BitAnd(en.data_type, p_gc'.typemask) = 0}
          /\ c_replicas' = c_replicas
          /\ p_heap'[c_replicas] = p_heap[c_replicas]]_vars

\* updater t is inside bch2_check_mark_super_slowpath, gc is in progress and
\* c->replicas holds the pair of its extent
MarksKnownPairDuringGc(t) ==
    /\ sb_lock = t
    /\ p_thr[t].pc \in {"gc", "mark"}
    /\ c_replicas_gc # 0
    /\ replicas_has_extent(p_heap[c_replicas].r, p_thr[t].e, p_thr[t].data_type)

\* C24: while gc is in progress, marking a pair that c->replicas already holds
\* adds it to the gc index only: c->replicas, the on-disk replicas field and seq
\* are unchanged, bch2_write_super is not called, and the gc index afterwards
\* holds its previous entries and the pair
C24_KnownPairOnlyIntoGcIndex ==
    [][\A t \in Updaters :
          MarksKnownPairDuringGc(t) =>
             /\ StableUntouched
             /\ (p_thr[t].pc = "gc" /\ p_thr'[t].pc = "mark") =>
                   IndexEntries(p_heap', c_replicas_gc') =
                      IndexEntries(p_heap, c_replicas_gc)
                         \cup {extent_to_replicas(p_thr[t].e, p_thr[t].data_type)}
             /\ p_thr[t].pc = "mark" =>
                   /\ p_thr'[t].pc \in {"mark", "idle"}
                   /\ p_thr'[t].pc = "idle" =>
                         p_thr'[t].ret = 0 /\ ~p_thr'[t].appended
                   /\ c_replicas_gc' = c_replicas_gc
                   /\ p_heap'[c_replicas_gc] = p_heap[c_replicas_gc]]_vars

\* an updater added a pair to the gc index that c->replicas held already, and
\* returned without a write of its own
C24_Witness ==
    \E t \in Updaters :
        /\ p_thr[t].pc = "idle"
        /\ p_thr[t].calls = 1
        /\ p_thr[t].gc_added
        /\ ~p_thr[t].appended
        /\ p_thr[t].ret = 0
        /\ c_replicas_gc # 0
        /\ extent_to_replicas(p_thr[t].e, p_thr[t].data_type)
              \in IndexEntries(p_heap, c_replicas) \cap IndexEntries(p_heap, c_replicas_gc)
        /\ WritesBy({t}) = {}

\* bch2_replicas_gc_end returned in this step
GcEnded == p_gc.pc = "running" /\ p_gc'.pc = "idle"

\* C25: bch2_replicas_gc_end with err != 0 discards the gc index and leaves
\* c->replicas, the on-disk replicas field and seq unchanged, without a call of
\* bch2_write_super
C25_GcEndErrDiscards ==
    [][(GcEnded /\ p_gc'.err) =>
          /\ c_replicas_gc' = 0
          /\ p_heap'[c_replicas_gc].status # "live"
          /\ StableUntouched]_vars

\* a gc cycle that had taken up entries was cancelled
C25_Witness ==
    /\ p_gc.pc = "idle"
    /\ p_gc.runs = 1
    /\ p_gc.err
    /\ c_replicas_gc = 0
    /\ \E t \in Updaters : p_thr[t].pc = "idle" /\ p_thr[t].gc_added
    /\ WritesBy({GcThread}) = {}

IndexWellFormed(r) ==
    /\ \A j, k \in 1..Len(r.entries) : j # k => r.entries[j] # r.entries[k]
    /\ \A k \in 1..Len(r.entries) :
          \A dev \in r.entries[k].devs : dev < replicas_dev_slots(r)
    /\ \A k \in 1..(Len(r.entries) - 1) :
          cpu_entry_less(r.entries[k], r.entries[k + 1], r.entry_size)

\* C27: c->replicas and c->replicas_gc never hold two entries with the same
\* data type and bitmap, their entries have one width that covers the largest
\* device, and they are sorted
C27_IndexesWellFormed ==
    /\ c_replicas # 0 => IndexWellFormed(p_heap[c_replicas].r)
    /\ c_replicas_gc # 0 => IndexWellFormed(p_heap[c_replicas_gc].r)

\* both indexes hold two entries or more, the gc index after an update
C27_Witness ==
    /\ c_replicas_gc # 0
    /\ Len(p_heap[c_replicas_gc].r.entries) >= 3
    /\ Len(p_heap[c_replicas].r.entries) >= 2
    /\ \E t \in Updaters : p_thr[t].gc_added

-----------------------------------------------------------------------------
(* Readers and sb_lock *)

\* the result of the query of reader t on the index r
ReaderResult(t, r) ==
    IF p_rd[t].fn = "status"
    THEN <<__bch2_replicas_status(r, c_sb[1].nr_devices, ca, p_rd[t].arg)>>
    ELSE <<bch2_dev_has_data(r, p_rd[t].arg)>>

\* sb_lock is never held by a reader, no step of a reader changes it, the
\* array a reader dereferenced stays as it is until the reader leaves its
\* section, and the result is the one of that array
ReaderStep ==
    \A t \in Readers :
        /\ sb_lock' # t
        /\ p_rd'[t] # p_rd[t] => sb_lock' = sb_lock
        /\ (p_rd[t].pc \in {"scan", "scanned"} /\ ~p_rd[t].uaf
            /\ p_rd'[t].pc \in {"scan", "scanned"}) =>
              /\ p_rd'[t].ptr = p_rd[t].ptr
              /\ p_heap'[p_rd[t].ptr].r = p_heap[p_rd[t].ptr].r
              /\ p_heap'[p_rd[t].ptr].status # "free"
        /\ (p_rd[t].pc = "scan" /\ p_rd'[t].pc = "scanned") =>
              p_rd'[t].ret = ReaderResult(t, p_heap[p_rd[t].ptr].r)

\* C28: __bch2_replicas_status and bch2_dev_has_data never take sb_lock and
\* complete whatever the holder of sb_lock does, a holder that waits in
\* bch2_write_super included; each query is computed from one array
C28_ReadersNeverWait ==
    /\ [][ReaderStep]_vars
    /\ \A t \in Readers : (p_rd[t].pc # "idle") ~> (p_rd[t].pc = "idle")

\* a reader computed its result from the index an updater published, while
\* that updater holds sb_lock and has not returned from bch2_write_super
C28_Witness ==
    \E t \in Readers, u \in Updaters :
        /\ sb_lock = u
        /\ p_thr[u].pc = "write"
        /\ p_rd[t].pc = "scanned"
        /\ p_rd[t].ptr = c_replicas
        /\ ~p_rd[t].uaf

-----------------------------------------------------------------------------
(* bch2_write_super without changes *)

\* nothing was submitted to a device and the media are as before the call
NothingWritten ==
    /\ w_log = <<>>
    /\ w_inflight = {}
    /\ w_cl = 0
    /\ \A d \in Devs :
          w_media[d] = WMedia(DevImage(d, ca[d].disk_sb.sb[1].layout.sb_offset))

\* C29: with nochanges set or BCH_FS_ERROR set, bch2_write_super submits no
\* write to any device and goes from the validation straight to out; when the
\* validation found nothing it ends without marking the filesystem inconsistent
C29_NoChangesNoWrite ==
    /\ []((c_opts.nochanges \/ c_error) =>
            /\ NothingWritten
            /\ w_pc # "wave"
            /\ (w_pc \in {"out", "done"} /\ \A d \in Devs : ~InvalidImage(d)) =>
                  ~c_inconsistent)
    /\ [][(w_pc = "validate" /\ (c_opts.nochanges \/ c_error)) =>
             w_pc' = "out"]_vars

\* a call on valid images of two online devices ended without a write because
\* BCH_FS_ERROR was set
C29_Witness ==
    /\ WriteDone
    /\ c_error
    /\ ~c_opts.nochanges
    /\ \A d \in Devs : ca[d].online /\ ~InvalidImage(d)
    /\ c_disk_sb.seq = c_seq0 + 1
    /\ ~c_inconsistent
    /\ w_log = <<>>

-----------------------------------------------------------------------------
(* bch2_sb_from_fs *)

\* the journal field of an image, if any
JournalOf(sb) ==
    IF bch2_sb_field_get(sb, BCH_SB_FIELD_journal) = 0 THEN <<>>
    ELSE <<sb.fields[bch2_sb_field_get(sb, BCH_SB_FIELD_journal)]>>

\* every field of src but the journal is a field of dst, with the same length
\* and payload
CarriesFields(dst, src) ==
    \A k \in 1..Len(src.fields) :
        src.fields[k].type # BCH_SB_FIELD_journal =>
            /\ bch2_sb_field_get(dst, src.fields[k].type) # 0
            /\ dst.fields[bch2_sb_field_get(dst, src.fields[k].type)] = src.fields[k]

\* C30: bch2_sb_from_fs leaves the journal field of the device image as it was,
\* length and buckets, for any authoritative image, and after a call that
\* returned 0 every other field of the authoritative image is in the device
\* image with the same length and payload
C30_FromFsKeepsJournal ==
    Returned("from_fs") =>
        /\ JournalOf(v_ret[1].sb.sb[1]) = JournalOf(v_call.h.sb[1])
        /\ v_ret[1].ret = 0 => CarriesFields(v_ret[1].sb.sb[1], v_call.src)

\* C30 for the calls whose __copy_super wrote into the buffer of the handle
C30_FromFsInPlace ==
    Returned("from_fs") =>
        /\ JournalOf(v_ret[1].sb.sb[1]) = JournalOf(v_call.h.sb[1])
        /\ (v_ret[1].ret = 0 /\ ~v_ret[1].uaf) =>
              CarriesFields(v_ret[1].sb.sb[1], v_call.src)

\* an authoritative image with a journal field of its own was copied in place
\* into a device image whose journal field comes first
C30_InPlaceWitness ==
    /\ Returned("from_fs")
    /\ v_ret[1].ret = 0
    /\ ~v_ret[1].uaf
    /\ JournalOf(v_call.src) # <<>>
    /\ JournalOf(v_call.h.sb[1]) = <<WJournalField>>
    /\ v_call.h.sb[1].fields[1].type = BCH_SB_FIELD_journal
    /\ Len(v_ret[1].sb.sb[1].fields) = 3

-----------------------------------------------------------------------------
(* The cached summary and the media *)

\* the cached member info of device d is the one of an image that some device
\* holds at one of its superblock sectors
MemberOnMedia(d) ==
    \E e \in Devs : \E s \in DOMAIN w_media[e] :
        /\ w_media[e][s].magic = BCACHE_MAGIC
        /\ bch2_sb_field_get(w_media[e][s], BCH_SB_FIELD_members) # 0
        /\ ca[d].mi = bch2_mi_to_cpu(member_at(
              w_media[e][s].fields[bch2_sb_field_get(w_media[e][s],
                                                     BCH_SB_FIELD_members)], d))

\* c->sb and ca->mi change only at out:, with no write in flight
CacheRefreshedLast ==
    (c_sb' # c_sb \/ \E d \in Devs : ca'[d].mi # ca[d].mi) =>
        /\ w_pc = "out"
        /\ w_inflight = {}
        /\ w_cl = 0

\* C31: bch2_write_super refreshes c->sb and ca->mi after all waves have
\* completed, and the cached values are never those of an authoritative image
\* that the call did not write to the devices
C31_CacheOnlyAfterPersistent ==
    /\ [](WriteDone => \A d \in Devs : MemberOnMedia(d))
    /\ [][CacheRefreshedLast]_vars

\* C31 for the calls whose waves were submitted and completed without an I/O
\* error, and the order of the refresh in every call
C31_CacheAfterWaves ==
    /\ []((WriteDone /\ w_log # <<>> /\ NrWriteErrors = 0) =>
              \A d \in Devs : MemberOnMedia(d))
    /\ [][CacheRefreshedLast]_vars

\* a call wrote both slots of both devices and refreshed the cache afterwards
C31_WavesWitness ==
    /\ WriteDone
    /\ Len(w_log) = 4 * NDev
    /\ c_sb = <<sb_update_summary(c_disk_sb)>>
    /\ \A d \in Devs : MemberOnMedia(d)

-----------------------------------------------------------------------------
(* Failed replica updates *)

\* the entries of the on-disk replicas field, c->replicas and its array, seq,
\* the media and the calls of bch2_write_super are as before the step
FieldAndIndexKept ==
    /\ sb_replicas_entries(c_disk_sb') = sb_replicas_entries(c_disk_sb)
    /\ c_disk_sb'.seq = c_disk_sb.seq
    /\ c_replicas' = c_replicas
    /\ p_heap'[c_replicas].r = p_heap[c_replicas].r
    /\ w_media' = w_media
    /\ p_writes' = p_writes

\* C32: a call of bch2_check_mark_super_slowpath that fails commits nothing:
\* from its entry to its return with an error the entries of the on-disk
\* replicas field, c->replicas and seq are unchanged and bch2_write_super is
\* not called
C32_FailedUpdateCommitsNothing ==
    [][\A t \in Updaters :
          ( /\ sb_lock = t
            /\ \/ p_thr'[t].pc \in {"gc", "mark"}
               \/ p_thr'[t].pc = "idle" /\ p_thr'[t].ret # 0 ) =>
             FieldAndIndexKept]_vars

\* the field was grown for a new entry, the index could not be rebuilt and the
\* call returned -ENOMEM
C32_Witness ==
    \E t \in Updaters :
        /\ p_thr[t].pc = "idle"
        /\ p_thr[t].calls = 1
        /\ p_thr[t].ret = -ENOMEM
        /\ ~p_thr[t].gc_added
        /\ p_gc.runs = 0
        /\ p_writes = <<>>
        /\ field_u64s(c_disk_sb, BCH_SB_FIELD_replicas) = 3
        /\ Len(sb_replicas_entries(c_disk_sb)) = 1

-----------------------------------------------------------------------------
(* Sequence numbers of the images written *)

\* the propagation step of the call is over
Propagated == w_pc \in {"validate", "wave", "out", "done"}

\* the image of device d and every image of it in flight carry the seq of the
\* authoritative image
CarriesSeq(d) ==
    /\ ca[d].disk_sb.sb[1].seq = c_disk_sb.seq
    /\ \A b \in w_inflight : b.dev = d => b.img.seq = c_disk_sb.seq

\* the buffer of device d had room for the authoritative image and the
\* journal field of the device
HadRoom(d) ==
    /\ d \notin w_uaf
    /\ ca[d].disk_sb.page_order >=
          get_order(sb_bytes(c_disk_sb.u64s
                             + field_u64s(ca[d].disk_sb.sb[1], BCH_SB_FIELD_journal)))

\* C33: a call of bch2_write_super increments seq of c->disk_sb by exactly 1;
\* after the propagation the image of every online device, and so every image
\* submitted, carries the new seq, also where the buffer of a device could
\* not be grown
C33_OneSeqPerCall ==
    Propagated =>
        /\ c_disk_sb.seq = c_seq0 + 1
        /\ \A d \in Devs : ca[d].online => CarriesSeq(d)

\* C33 for the devices whose buffer had room
C33_OneSeqInPlace ==
    Propagated =>
        /\ c_disk_sb.seq = c_seq0 + 1
        /\ \A d \in Devs : (ca[d].online /\ HadRoom(d)) => CarriesSeq(d)

\* both devices were written in place with the new seq
C33_InPlaceWitness ==
    /\ WriteDone
    /\ \A d \in Devs : ca[d].online /\ HadRoom(d) /\ Completed(d, 0, FALSE)
    /\ c_disk_sb.seq = WSeq + 1

-----------------------------------------------------------------------------
(* The writes of one call *)

\* the positions in the log of the submissions for slot k of device d
Submissions(d, k) ==
    {p \in 1..Len(w_log) :
        w_log[p].ev = "submit" /\ w_log[p].dev = d /\ w_log[p].idx = k}

\* the slots of the layout of device d
SlotsOf(d) == 0..(ca[d].disk_sb.sb[1].layout.nr_superblocks - 1)

\* every write in flight is for a slot of the device's own layout, goes to the
\* sector of that slot and carries that sector and the checksum over it
InFlightAtOwnSlot ==
    \A b \in w_inflight :
        /\ b.idx \in SlotsOf(b.dev)
        /\ b.sector = ca[b.dev].disk_sb.sb[1].layout.sb_offset[b.idx + 1]
        /\ b.img.offset = b.sector
        /\ b.img.csum = csum_vstruct(b.img.flags.csum_type, b.img)
        /\ b.img.flags.csum_type = c_opts.metadata_checksum

\* no slot of a device is written twice, none outside its layout, none on a
\* device that is not online, and the slots of a device are written in
\* increasing order
SlotsOnceInOrder ==
    /\ \A p \in 1..Len(w_log) :
          w_log[p].ev = "submit" =>
             /\ ca[w_log[p].dev].online
             /\ w_log[p].idx \in SlotsOf(w_log[p].dev)
    /\ \A p, q \in 1..Len(w_log) :
          (/\ w_log[p].ev = "submit" /\ w_log[q].ev = "submit"
           /\ w_log[p].dev = w_log[q].dev /\ p < q) =>
             w_log[p].idx < w_log[q].idx

\* the sectors of a device outside its layout hold what they held
OtherSectorsKept ==
    \A d \in Devs : \A s \in DOMAIN w_media[d] :
        (\A k \in SlotsOf(d) : ca[d].disk_sb.sb[1].layout.sb_offset[k + 1] # s) =>
            w_media[d][s] = NoImage

\* C34: if every submitted write completes, bch2_write_super terminates; when
\* writes are allowed every online device gets exactly one write for each slot
\* of its own layout, in increasing order, at the sector of the slot, with the
\* offset and the checksum of the image set for the slot, and nothing is
\* written elsewhere, whatever the slot counts of the devices
C34_OneWritePerSlot ==
    /\ [](/\ InFlightAtOwnSlot
          /\ SlotsOnceInOrder
          /\ OtherSectorsKept
          /\ (WriteDone /\ WroteWaves) =>
                \A d \in Devs : ca[d].online =>
                    \A k \in SlotsOf(d) : Cardinality(Submissions(d, k)) = 1)
    /\ Propagated ~> WriteDone

\* device 0 got its two slots written, device 1 its only one
C34_Witness ==
    /\ WriteDone
    /\ \A d \in Devs : ca[d].online
    /\ ca[1].disk_sb.sb[1].layout.nr_superblocks = 1
    /\ Cardinality(Submissions(0, 0)) = 1
    /\ Cardinality(Submissions(0, 1)) = 1
    /\ Cardinality(Submissions(1, 0)) = 1
    /\ Submissions(1, 1) = {}
    /\ w_media[0][24].offset = 24
    /\ w_media[0][24].seq = c_disk_sb.seq
    /\ w_media[1][24] = NoImage

-----------------------------------------------------------------------------
(* The length of the device image during bch2_sb_from_fs *)

\* the lengths in words the image dst has after each iteration of the
\* vstruct_for_each loop of __copy_super(dst, src), the length before the
\* first included
copy_lengths(dst, src) ==
    {copy_fields(dst, SubSeq(src.fields, 1, n), 1).u64s : n \in 0..Len(src.fields)}

\* the image of n words fits the buffer of the handle h and the size budget
\* of the layout
FitsBuffer(h, n) ==
    /\ sb_bytes(n) <= PAGE_SIZE * Pow2(h.page_order)
    /\ sb_bytes(n) <= 512 * Pow2(h.sb[1].layout.sb_max_size_bits)

\* a call of bch2_sb_from_fs returned 0 having copied into the buffer the
\* handle had
FromFsCopiedInPlace ==
    /\ v_call.fn = "from_fs"
    /\ v_ret # <<>>
    /\ v_ret[1].ret = 0
    /\ ~v_ret[1].uaf

\* C35: at every step of the field-by-field copy of bch2_sb_from_fs the
\* length of the device image stays within PAGE_SIZE << page_order of its
\* buffer and within 512 << sb_max_size_bits, whatever the fields of the
\* two images, their order and their sizes
C35_CopyWithinBuffer ==
    FromFsCopiedInPlace =>
        \A n \in copy_lengths(v_call.h.sb[1], v_call.src) :
            FitsBuffer(v_ret[1].sb, n)

\* C35, the part that holds: the image the copy ends with fits the buffer and
\* the budget when every field of the device image other than the journal is
\* a field of the authoritative image too
C35_CopyEndsWithinBuffer ==
    (/\ FromFsCopiedInPlace
     /\ \A i \in 1..Len(v_call.h.sb[1].fields) :
           \/ v_call.h.sb[1].fields[i].type = BCH_SB_FIELD_journal
           \/ bch2_sb_field_get(v_call.src, v_call.h.sb[1].fields[i].type) # 0) =>
        FitsBuffer(v_ret[1].sb, v_ret[1].sb.sb[1].u64s)

\* a copy that grew the image into a second page allocated before the call
C35_EndsWitness ==
    /\ FromFsCopiedInPlace
    /\ v_call.h.page_order = 1
    /\ v_ret[1].sb.sb[1].u64s > v_call.h.sb[1].u64s
    /\ sb_bytes(v_ret[1].sb.sb[1].u64s) > PAGE_SIZE

-----------------------------------------------------------------------------
(* The in-progress index after bch2_replicas_gc_end *)

\* C36: once bch2_replicas_gc_end has returned, whatever its err and its
\* return value, the failure of the resize of the field included, no
\* in-progress index is installed, so that the BUG_ON(c->replicas_gc) of
\* bch2_replicas_gc_start never fires
C36_NoGcIndexAfterEnd ==
    /\ (p_gc.pc = "idle" /\ p_gc.runs > 0) => c_replicas_gc = 0
    /\ ~p_bug

\* C36, the part that holds: a collection that ended with 0, cancelled or
\* completed, leaves no in-progress index
C36_NoGcIndexAfterEndOk ==
    (p_gc.pc = "idle" /\ p_gc.runs > 0 /\ p_gc.ret = 0) => c_replicas_gc = 0

\* a collection was completed and one was cancelled
C36_CompletedWitness ==
    p_gc.pc = "idle" /\ p_gc.runs > 0 /\ p_gc.ret = 0 /\ ~p_gc.err

C36_CancelledWitness ==
    p_gc.pc = "idle" /\ p_gc.runs > 0 /\ p_gc.ret = 0 /\ p_gc.err

\* the BUG_ON fired
C36_BugFired == p_bug

-----------------------------------------------------------------------------
(* sb_lock *)

\* the thread t is between the mutex_lock and the mutex_unlock of
\* bch2_check_mark_super_slowpath
InSlowpath(t) == p_thr[t].pc \in {"gc", "mark", "write"}

\* C37: every path through bch2_check_mark_super_slowpath,
\* bch2_replicas_gc_start and bch2_replicas_gc_end releases sb_lock before it
\* is over: sb_lock is held only by a thread that is inside
\* bch2_check_mark_super_slowpath, and by that thread all the time it is
\* inside; between the calls of the gc thread sb_lock is not left held, so
\* that no thread waits for it forever
C37_LockHeldOnlyInsideCall ==
    /\ \A t \in Updaters : InSlowpath(t) <=> sb_lock = t
    /\ sb_lock \in Updaters \cup {0}

\* C37, the part that holds: an updater holds sb_lock exactly while it is
\* inside bch2_check_mark_super_slowpath, whatever the exit it takes, and
\* bch2_write_super is called by the thread that holds it
C37_UpdaterHoldsInside ==
    [][/\ \A t \in Updaters :
            /\ InSlowpath(t) <=> sb_lock = t
            /\ (InSlowpath(t) /\ ~InSlowpath(t)') => sb_lock' = 0
            /\ (p_thr[t].calls' # p_thr[t].calls) => (sb_lock = t /\ sb_lock' = 0)
       /\ (Len(p_writes') > Len(p_writes) /\ sb_lock # 0) =>
              p_writes'[Len(p_writes')].by = sb_lock]_vars

\* an updater left bch2_check_mark_super_slowpath with -ENOSPC, one with
\* -ENOMEM and one after bch2_write_super
C37_ExitsWitness ==
    /\ sb_lock = 0
    /\ \E t \in Updaters : p_thr[t].calls > 0 /\ p_thr[t].ret = -ENOSPC

C37_WriteExitWitness ==
    /\ sb_lock = 0
    /\ \E t \in Updaters : p_thr[t].calls > 0 /\ p_thr[t].appended

-----------------------------------------------------------------------------
(* bch2_dev_has_data *)

\* the data types of the entries of the list es that name the device dev
TypesOn(es, dev) ==
    {es[k].data_type : k \in {j \in 1..Len(es) : dev \in SeqToSet(es[j].devs)}}

\* the bitmask with one bit for every data type of the set T
TypeMask(T) ==
    LET sum[t \in 0..BCH_DATA_NR] ==
            IF t = 0 THEN 0
            ELSE sum[t - 1] + (IF (t - 1) \in T THEN Pow2(t - 1) ELSE 0)
    IN  sum[BCH_DATA_NR]

HasDataReturned == v_call.fn = "has_data" /\ v_ret # <<>>

\* C38: bch2_dev_has_data returns the bitmask of all the data types for which
\* an entry of the stable index names the device, and 0 when no entry names
\* it or the device lies beyond the width of the index
C38_HasDataAllTypes ==
    HasDataReturned => v_ret[1] = TypeMask(TypesOn(v_call.entries, v_call.dev))

\* C38, the part that holds: the result is 0 exactly when no entry names the
\* device, a device beyond the width of the bitmaps included, and otherwise
\* the bit of one data type of the device
C38_HasDataOneType ==
    HasDataReturned =>
        IF TypesOn(v_call.entries, v_call.dev) = {} THEN v_ret[1] = 0
        ELSE \E t \in TypesOn(v_call.entries, v_call.dev) : v_ret[1] = Pow2(t)

\* a query for a device beyond the width, and one for a device with one type
C38_BeyondWitness ==
    /\ HasDataReturned
    /\ v_call.entries # <<>>
    /\ v_call.dev = 16
    /\ v_ret[1] = 0

C38_OneTypeWitness ==
    /\ HasDataReturned
    /\ Len(v_call.entries) = 2
    /\ Cardinality(TypesOn(v_call.entries, v_call.dev)) = 1
    /\ v_ret[1] = Pow2(BCH_DATA_USER)

-----------------------------------------------------------------------------
(* The stable index and the replicas field *)

\* the (data type, device set) pairs of the index at address o
IndexPairs(o) == {<<e.data_type, e.devs>> : e \in IndexEntries(p_heap, o)}

\* the pairs encoded in the replicas field of the authoritative image
FieldPairs == PairsOf(sb_replicas_entries(c_disk_sb))

\* the part of C39 about replica updates and gc: with sb_lock free the stable
\* index holds the pairs of the replicas field of c->disk_sb
IndexIsField == sb_lock = 0 => IndexPairs(c_replicas) = FieldPairs

\* a call of bch2_sb_to_fs failed after __copy_super
ToFsFailedAfterCopy == v_call # <<>> /\ v_call.ret # 0 /\ v_call.copied

\* C39: whenever sb_lock is not held the stable index holds exactly the
\* (data type, device set) pairs encoded in the replicas field of the
\* authoritative image, after any sequence of bch2_sb_to_fs, replica updates
\* and gc_start, gc updates and gc_end, successful or failed
C39_IndexIsFieldAfterAll ==
    sb_lock = 0 => IndexPairs(c_replicas) = PairsOf(sb_replicas_entries(c_disk_sb))

\* C39, the part that holds: the same as long as no call of bch2_sb_to_fs
\* failed after it had copied the superblock
C39_IndexIsFieldUnlessToFsFailed ==
    ~ToFsFailedAfterCopy => IndexIsField

\* bch2_sb_to_fs brought a second entry, after a replica update and a
\* completed collection
C39_ToFsWitness ==
    /\ sb_lock = 0
    /\ v_call # <<>> /\ v_call.ret = 0
    /\ Cardinality(FieldPairs) >= 2
    /\ p_writes # <<>>

-----------------------------------------------------------------------------
(* Block I/O shim: generic_make_request, aio_completion_thread,
   submit_bio_wait *)

BLK_STS_OK == 0
BLK_STS_IOERR == 10
EIO == 5

\* blk_errors[]: the errno of every blk_status_t from BLK_STS_OK to BLK_STS_AGAIN
blk_errors == <<0, -95, -110, -ENOSPC, -67, -121, -52, -61, -84, -ENOMEM, -EIO, -78, -11>>

\* blk_status_to_errno(status)
blk_status_to_errno(status) ==
    IF status >= Len(blk_errors) THEN -EIO ELSE blk_errors[status + 1]

\* a mutation of aio_event_status: the byte count is not looked at
aio_event_status_unchecked(res, bi_size, bi_status) == bi_status

\* if (ev->res != bio->bi_iter.bi_size) bio->bi_status = BLK_STS_IOERR
aio_event_status(res, bi_size, bi_status) ==
    IF res # bi_size THEN BLK_STS_IOERR ELSE bi_status

\* bound on the bios of a run, and the size of each
MaxBios == 2
BioIds == 1..MaxBios
BioBytes == 4096

\* what the kernel reports in ev->res: all the bytes, some of them, an error
AioResults == {BioBytes, 512, -EIO}

\* bios as bio_init leaves them, with bi_end_io set by their owner
NewBios ==
    {[op |-> op, preflush |-> pf, bi_size |-> BioBytes, bi_status |-> BLK_STS_OK,
      st |-> "new", res |-> 0, end_io |-> 0] :
        op \in {"read", "write"}, pf \in BOOLEAN}

\* bio_endio(bio) on an unchained bio: bi_end_io runs; for the bio of
\* submit_bio_wait that is complete(bio->bi_private)
bio_endio(bios, b, status, res) ==
    [bios EXCEPT ![b].bi_status = status, ![b].res = res, ![b].st = "ended",
                 ![b].end_io = @ + 1]

\* generic_make_request(bio) for a read or a write: with REQ_PREFLUSH the
\* fdatasync, whose failure (sync_ok false) ends the bio with BLK_STS_IOERR;
\* otherwise atomic_inc(&running_requests) and io_submit
generic_make_request(b, sync_ok) ==
    IF b_bio[b].preflush /\ ~sync_ok
    THEN /\ b_bio' = bio_endio(b_bio, b, BLK_STS_IOERR, 0)
         /\ UNCHANGED <<b_running, b_aio>>
    ELSE /\ b_bio' = [b_bio EXCEPT ![b].st = "submitted"]
         /\ b_running' = b_running + 1
         /\ b_aio' = [b_aio EXCEPT !.inflight = @ \cup {b}]

\* submit_bio(bio) by the owner of the bio, who waits for nothing
SubmitBio ==
    /\ \E b \in BioIds, sync_ok \in BOOLEAN :
         /\ b_bio[b].st = "new"
         /\ sync_ok \/ b_bio[b].preflush
         /\ generic_make_request(b, sync_ok)
    /\ UNCHANGED <<b_events, b_wait, rvars, wvars, pvars, xvars>>

\* submit_bio_wait(bio) up to wait_for_completion: init_completion,
\* bi_private = &done, bi_end_io = submit_bio_wait_endio, submit_bio
SubmitBioWait ==
    /\ b_wait.pc = "idle"
    /\ \E b \in BioIds, sync_ok \in BOOLEAN :
         /\ b_bio[b].st = "new"
         /\ sync_ok \/ b_bio[b].preflush
         /\ generic_make_request(b, sync_ok)
         /\ b_wait' = [pc |-> "wait", bio |-> b, ret |-> 0,
                       done |-> (b_bio[b].preflush /\ ~sync_ok)]
    /\ UNCHANGED <<b_events, rvars, wvars, pvars, xvars>>

\* the kernel is through with an iocb: its event is queued with the result
AioComplete ==
    /\ \E b \in b_aio.inflight, res \in AioResults :
         b_aio' = [inflight |-> b_aio.inflight \ {b},
                   ring |-> Append(b_aio.ring, [data |-> b, res |-> res])]
    /\ UNCHANGED <<b_bio, b_running, b_events, b_wait, rvars, wvars, pvars, xvars>>

\* ARRAY_SIZE(events)
AIO_EVENTS == 8

\* io_getevents(aio_ctx, 1, ARRAY_SIZE(events), events, NULL) returns with
\* the first n events queued
AioGetEvents ==
    /\ b_events = <<>>
    /\ \E n \in 1..Min(Len(b_aio.ring), AIO_EVENTS) :
         /\ b_events' = SubSeq(b_aio.ring, 1, n)
         /\ b_aio' = [b_aio EXCEPT !.ring = SubSeq(@, n + 1, Len(@))]
    /\ UNCHANGED <<b_bio, b_running, b_wait, rvars, wvars, pvars, xvars>>

\* one iteration of the for loop of aio_completion_thread: the status from
\* the byte count, bio_endio, atomic_dec(&running_requests)
AioHandleEvent ==
    /\ b_events # <<>>
    /\ LET ev == Head(b_events) b == Head(b_events).data IN
         /\ b_bio' = bio_endio(b_bio, b,
                               aio_event_status(ev.res, b_bio[b].bi_size,
                                                b_bio[b].bi_status),
                               ev.res)
         /\ b_wait' = IF b_wait.pc = "wait" /\ b_wait.bio = b
                      THEN [b_wait EXCEPT !.done = TRUE] ELSE b_wait
    /\ b_running' = b_running - 1
    /\ b_events' = Tail(b_events)
    /\ UNCHANGED <<b_aio, rvars, wvars, pvars, xvars>>

\* wait_for_completion(&done) returns;
\* return blk_status_to_errno(bio->bi_status)
SubmitBioWaitReturn ==
    /\ b_wait.pc = "wait"
    /\ b_wait.done
    /\ b_wait' = [b_wait EXCEPT !.pc = "idle",
                                !.ret = blk_status_to_errno(b_bio[b_wait.bio].bi_status)]
    /\ UNCHANGED <<b_bio, b_running, b_aio, b_events, rvars, wvars, pvars, xvars>>

BioNext ==
    \/ SubmitBio
    \/ SubmitBioWait
    \/ AioComplete
    \/ AioGetEvents
    \/ AioHandleEvent
    \/ SubmitBioWaitReturn

\* MaxBios bios set up, none of them submitted, aio_completion_thread started
BioInit ==
    /\ ReadIdle
    /\ WriteIdle
    /\ ReplIdle
    /\ CallIdle
    /\ b_bio \in [BioIds -> NewBios]
    /\ b_running = 0
    /\ b_aio = [inflight |-> {}, ring |-> <<>>]
    /\ b_events = <<>>
    /\ b_wait = [pc |-> "idle", bio |-> 0, done |-> FALSE, ret |-> 0]

SpecBio == BioInit /\ [][BioNext]_vars

\* the kernel completes every iocb, aio_completion_thread and the caller of
\* submit_bio_wait keep running; nothing is assumed about new submissions
SpecBioLive ==
    /\ BioInit
    /\ [][BioNext]_vars
    /\ WF_vars(AioComplete)
    /\ WF_vars(AioGetEvents \/ AioHandleEvent)
    /\ WF_vars(SubmitBioWaitReturn)

-----------------------------------------------------------------------------
(* Properties of the block I/O shim *)

\* the bio went through io_submit
WentToAio(b) == b_bio[b].st = "ended" /\ b_bio[b].res # 0

\* a bio whose transfer ended has BLK_STS_IOERR when the byte count differs
\* from its size and BLK_STS_OK otherwise, and its callback ran once; no
\* callback runs before the end or twice
StatusAndCallback ==
    \A b \in BioIds :
        /\ b_bio[b].end_io = (IF b_bio[b].st = "ended" THEN 1 ELSE 0)
        /\ WentToAio(b) =>
              b_bio[b].bi_status =
                 (IF b_bio[b].res = b_bio[b].bi_size THEN BLK_STS_OK ELSE BLK_STS_IOERR)

\* running_requests counts the bios submitted whose callback has not run
CounterIsInFlight ==
    /\ b_running = Cardinality({b \in BioIds : b_bio[b].st = "submitted"})
    /\ (\A b \in BioIds : b_bio[b].st # "submitted") => b_running = 0

\* submit_bio_wait has returned only for a bio whose callback ran, with 0
\* exactly when its status is BLK_STS_OK
WaitReturnsStatus ==
    /\ (b_wait.pc = "idle" /\ b_wait.bio # 0) =>
          /\ b_bio[b_wait.bio].st = "ended"
          /\ b_wait.ret = 0 <=> b_bio[b_wait.bio].bi_status = BLK_STS_OK
    /\ \A status \in 0..255 :
          blk_status_to_errno(status) = 0 <=> status = BLK_STS_OK

\* C40: a read or write whose byte count differs from the size requested
\* completes with BLK_STS_IOERR, one that transfers everything with
\* BLK_STS_OK; the completion callback of every bio submitted runs, exactly
\* once; running_requests is the number of bios in flight and is zero when
\* all have completed; submit_bio_wait returns, only after the completion, 0
\* exactly when the status is BLK_STS_OK
C40_CompletionStatus ==
    /\ [](StatusAndCallback /\ CounterIsInFlight /\ WaitReturnsStatus)
    /\ \A b \in BioIds : (b_bio[b].st = "submitted") ~> (b_bio[b].end_io = 1)
    /\ (b_wait.pc = "wait") ~> (b_wait.pc = "idle")
    /\ (b_running > 0) ~> (b_running = 0)

\* both bios completed: a short transfer, for which submit_bio_wait returned
\* -EIO, and a full one
C40_Witness ==
    /\ \A b \in BioIds : b_bio[b].st = "ended" /\ b_bio[b].end_io = 1
    /\ b_running = 0
    /\ b_bio[1].res = 512 /\ b_bio[1].bi_status = BLK_STS_IOERR
    /\ b_bio[2].res = BioBytes /\ b_bio[2].bi_status = BLK_STS_OK
    /\ b_wait = [pc |-> "idle", bio |-> 1, done |-> TRUE, ret |-> -EIO]

\* submit_bio_wait returned 0, and a bio failed with an error of the kernel
C40_OkWitness ==
    /\ b_wait = [pc |-> "idle", bio |-> 2, done |-> TRUE, ret |-> 0]
    /\ b_bio[1].res = -EIO /\ b_bio[1].bi_status = BLK_STS_IOERR

====
